---- MODULE Spec2Model ----
(***************************************************************************)
(* Rock-paper-scissors duel server: one lobby of the LobbyManager, its     *)
(* GameSession, the session's Timer, and the reconnect bookkeeping.        *)
(*                                                                         *)
(* Time is abstract: every armed setTimeout / setInterval may run at any   *)
(* later step, and a cleared one never runs.  The order is free but for    *)
(* the 2 s and the 120 s timeout set by one call of handleDisconnect.      *)
(* Each handler of the server is one atomic action (Node.js runs a         *)
(* callback to its end).                                                   *)
(*                                                                         *)
(* The nested method calls of a handler are modelled as operators that     *)
(* take the world (a record of all mutable server state) and return the    *)
(* world after the call.                                                   *)
(***************************************************************************)
EXTENDS Integers, Sequences, FiniteSets, TLC

(* ---------------------------------------------------------------------- *)
(* Bounds of the model                                                     *)
(* ---------------------------------------------------------------------- *)

\* Number of client connections (sockets) opened over the whole run.
MaxSockets == 4

\* Number of client connections in the specification of the play.
PlaySockets == 2

\* The main specification and the specification of the returns follow a game
\* up to the reveal of this round; full games are followed in the
\* specifications of the play and of the run.
ReturnRounds == 2

\* The clock of the Timer specification counts half seconds: Date.now() runs
\* from 0 to MaxNow.
MaxNow == 8

\* Half seconds in a second.
Half == 2

\* The longest duration, in seconds, a Timer is constructed with there.
LongDuration == 2

\* The durations a Timer is constructed with.
Durations == 1..LongDuration

\* The completions counted since the last start(): the count stops here.
MaxCompletions == 2

(* ---------------------------------------------------------------------- *)
(* Program constants                                                       *)
(* ---------------------------------------------------------------------- *)

totalRounds == 6

MAX_SWAPS_PER_GAME == 3

LobbyId == "L"

\* A lobby id no lobby has.
OtherLobbyId == "X"

LobbyIds == {LobbyId, OtherLobbyId}

\* Client identities: two players and a third party.
PlayerIds == {"p1", "p2", "p3"}

GamePhase ==
  [WAITING |-> "waiting", PREVIEW |-> "preview", SEQUENCE |-> "sequence",
   ROUND_START |-> "round_start", SWAP |-> "swap", REVEAL |-> "reveal",
   GAME_OVER |-> "game_over", PAUSED |-> "paused"]

\* previousPhase = null
NoPhase == "null"

(* ---------------------------------------------------------------------- *)
(* Deck and rules                                                          *)
(* ---------------------------------------------------------------------- *)

\* Cards are the ids 0..8 of createFullDeck: three of each kind, in the
\* order rock, scissors, paper.
CardType(c) ==
  IF c \in 0..2 THEN "rock" ELSE IF c \in 3..5 THEN "scissors" ELSE "paper"

\* What each kind beats.
Wins(t) ==
  IF t = "rock" THEN "scissors" ELSE IF t = "scissors" THEN "paper" ELSE "rock"

\* A determineWinner whose table says that each kind beats itself: the
\* first card never wins.
determineWinner_noTable(card1, card2) ==
  IF CardType(card1) = CardType(card2) THEN 0
  ELSE IF CardType(card1) = CardType(card2) THEN 1
  ELSE 2

\* 1 if card1 wins, 2 if card2 wins, 0 on a draw.
determineWinner(card1, card2) ==
  IF CardType(card1) = CardType(card2) THEN 0
  ELSE IF Wins(CardType(card1)) = CardType(card2) THEN 1
  ELSE 2

\* The winner's id of the final result, "none" on a draw.
determineGameWinner(id1, score1, id2, score2) ==
  IF score1 > score2 THEN id1
  ELSE IF score2 > score1 THEN id2
  ELSE "none"

\* Cards of each kind in the full deck.
CardsPerType == 3

\* Cards in a hand.
HandSize == 6

\* Deck.createFullDeck: the nine cards, three of each kind.
createFullDeck == [i \in 1..(3 * CardsPerType) |-> i - 1]

\* [shuffled[i], shuffled[j]] = [shuffled[j], shuffled[i]], indices from 0.
Exchanged(array, i, j) ==
  [array EXCEPT ![i + 1] = array[j + 1], ![j + 1] = array[i + 1]]

\* A deal that slices one card more.
Deck_deal_long(shuffled) == SubSeq(shuffled, 1, HandSize + 1)

\* Deck.deal, the slice of the shuffled deck.
Deck_deal(shuffled) == SubSeq(shuffled, 1, HandSize)

\* A call of Deck.deal at the start of the loop of shuffle: the copy of the
\* full deck, the loop index i, and no hand returned yet.
NewDeal ==
  [shuffled |-> createFullDeck, i |-> Len(createFullDeck) - 1, hand |-> <<>>]

\* Outcomes of the two Deck.deal calls of start this model draws from: the
\* hand of the first and of the second player (six cards of the nine, in
\* shuffled order).
Deals ==
  { << <<0, 1, 3, 4, 6, 7>>, <<6, 3, 0, 7, 4, 8>> >> }

\* Outcomes of Deck.shuffle(hand) this model draws from: the order dealt.
ShuffleChoices(hand) == { hand }

\* Sequences a client may send with setSequence: the hand in the order
\* dealt, and a list that is one card short.
SequenceInputs(hand) ==
  IF Len(hand) = 0 THEN { <<>> } ELSE { hand, Tail(hand) }

\* Positions a client may send with swapCards, in the remaining-cards frame:
\* two cards that are not adjacent.
SwapInputs == { <<0, 2>> }

\* A list in reverse order.
Reversed(s) == [i \in 1..Len(s) |-> s[Len(s) + 1 - i]]

\* Positions a client may send with swapCards in the specification of the
\* play: an adjacent pair, a pair that is not adjacent, a position before the
\* remaining cards, and a position that falls off the end in later rounds.
PlaySwapInputs == { <<0, 1>>, <<0, 2>>, <<-1, 0>>, <<4, 5>> }

\* Sequences a client may send with setSequence in the specification of the
\* play: the hand as dealt and reversed, a list one card short, a list with
\* one card twice, and a list with a card that is not in the hand.
PlaySequenceInputs(hand) ==
  IF Len(hand) = 0 THEN { <<>> }
  ELSE { hand, Reversed(hand), Tail(hand),
         [hand EXCEPT ![1] = hand[2]],
         [hand EXCEPT ![1] = CHOOSE c \in 0..8 : \A i \in 1..Len(hand) : hand[i] # c] }

\* Outcomes of Deck.shuffle(hand) in the specification of the play.
PlayShuffleChoices(hand) == { hand, Reversed(hand) }

(* ---------------------------------------------------------------------- *)
(* State                                                                   *)
(* ---------------------------------------------------------------------- *)

VARIABLES
  lobby,        \* the entry of LobbyManager.lobbies for LobbyId
  players,      \* the Player objects, by id
  session,      \* the GameSession object (kept alive by its timers' closures)
  leaked,       \* Timers no longer referenced by session.timer, still armed
  deferred,     \* pending setTimeout(() => startRound(), 100) callbacks
  recs,         \* LobbyManager.disconnectedPlayers
  orphanExpiry, \* armed reconnect-expiry timeouts no record refers to
  orphanNotify, \* armed notify timeouts no record refers to
  live,         \* connected sockets
  mapped,       \* keys of LobbyManager.playerToLobby
  nextSock,     \* id of the next socket to connect
  out,          \* events emitted by the last step
  calls,        \* methods the last step ran
  ended,        \* how the session was first ended, "no" before that
  crashed,      \* an uncaught exception has ended the server process
  machine,      \* a GameStateMachine object; no module of the server uses it
  bench,        \* a Timer object on its own, the clock and its callbacks
  deck          \* a call of Deck.deal: the array being shuffled, the hand dealt

vars ==
  <<lobby, players, session, leaked, deferred, recs, orphanExpiry,
    orphanNotify, live, mapped, nextSock, out, calls, ended, crashed,
    machine, bench, deck>>

\* A Player right after its constructor.  swapRound is history, not a field
\* of the object: the round index of the player's last swap, -1 before it.
NewPlayer(sock) ==
  [socketId |-> sock, hand |-> <<>>, sequence |-> <<>>, sequenceSet |-> FALSE,
   swapsUsed |-> 0, swappedThisRound |-> FALSE, score |-> 0,
   disconnected |-> FALSE, ready |-> FALSE, swapRound |-> -1]

\* pendingAction = null
NoAction == "null"

\* A GameStateMachine right after its constructor.  last and returned are
\* history, not fields of the object: the last method called on it and what
\* that call returned ("threw" for an exception).
NewMachine(initialPhase) ==
  [phase |-> initialPhase, savedPhase |-> NoPhase, isPaused |-> FALSE,
   pendingAction |-> NoAction, last |-> "new", returned |-> "undefined"]

\* null, where a time or a timer handle is expected
Null == -1

\* A Timer right after its constructor, in t.  The rest of the bench is not
\* part of the object: the clock (now), the due times of armed timeouts the
\* object no longer refers to (stray), the value the last tick showed, the
\* completions since the last start(), whether clear() was called since,
\* and the last call or callback.
NewBench(duration, onTick) ==
  [t |-> [duration |-> duration, remaining |-> duration, onTick |-> onTick,
          interval |-> Null, timeout |-> Null, paused |-> FALSE,
          startTime |-> Null],
   now |-> 0, stray |-> {}, shown |-> Null, completions |-> 0,
   cleared |-> FALSE, last |-> "new"]

\* session.timer = null
NoTimer == [kind |-> "none", armed |-> FALSE, paused |-> FALSE]

TimerKinds == {"preview", "sequence", "swap", "continue"}

\* A GameSession right after its constructor; made = FALSE before that.
NewSession(made, ps) ==
  [made |-> made, players |-> ps, currentRound |-> 0,
   phase |-> GamePhase.WAITING, previousPhase |-> NoPhase,
   roundHistory |-> <<>>, timer |-> NoTimer, paused |-> FALSE,
   continueReady |-> {}, previewReady |-> {}, completed |-> FALSE,
   pendingRoundStart |-> FALSE]

\* No entry in disconnectedPlayers.
NoRec ==
  [present |-> FALSE, lobbyId |-> "", timeout |-> FALSE, notify |-> FALSE,
   reattached |-> FALSE]

\* The lobbies map has no entry.
NoLobby == [exists |-> FALSE, players |-> <<>>, session |-> FALSE, allowed |-> {}]

Init ==
  /\ lobby = NoLobby
  /\ players = [p \in PlayerIds |-> NewPlayer(0)]
  /\ session = NewSession(FALSE, <<>>)
  /\ leaked = [k \in TimerKinds |-> 0]
  /\ deferred = 0
  /\ recs = [p \in PlayerIds |-> NoRec]
  /\ orphanExpiry = [p \in PlayerIds |-> 0]
  /\ orphanNotify = [p \in PlayerIds |-> 0]
  /\ live = {}
  /\ mapped = {}
  /\ nextSock = 1
  /\ out = {}
  /\ calls = {}
  /\ ended = "no"
  /\ crashed = FALSE
  /\ machine = NewMachine(GamePhase.WAITING)
  /\ bench = NewBench(LongDuration, TRUE)
  /\ deck = NewDeal

\* The mutable server state a handler works on.
World ==
  [lobby |-> lobby, players |-> players, session |-> session,
   leaked |-> leaked, deferred |-> deferred, recs |-> recs,
   orphanExpiry |-> orphanExpiry, orphanNotify |-> orphanNotify,
   live |-> live, mapped |-> mapped, out |-> {}, calls |-> {},
   ended |-> ended, crashed |-> crashed]

\* The connected sockets the server refers to: those in playerToLobby and
\* those a Player object is bound to.  No handler can tell any other socket
\* from a closed one.
Bound(w) == w.live \cap (w.mapped \cup { w.players[q].socketId : q \in PlayerIds })

\* The 120 s timeouts no record refers to that can still act: with the lobby
\* out of the lobbies map, handleReconnectTimeout returns on its first line.
Pending(w) == IF w.lobby.exists THEN w.orphanExpiry ELSE [q \in PlayerIds |-> 0]

\* The state after a handler that ended in world w.
Commit(world) ==
  \E w \in {world} :
    /\ lobby' = w.lobby
    /\ players' = w.players
    /\ session' = w.session
    /\ leaked' = w.leaked
    /\ deferred' = w.deferred
    /\ recs' = w.recs
    /\ orphanExpiry' = Pending(w)
    /\ orphanNotify' = w.orphanNotify
    /\ live' = Bound(w)
    /\ mapped' = w.mapped
    /\ out' = w.out
    /\ calls' = w.calls
    /\ ended' = w.ended
    /\ crashed' = w.crashed
    /\ machine' = machine
    /\ bench' = bench
    /\ deck' = deck

(* ---------------------------------------------------------------------- *)
(* Events and call log                                                     *)
(* ---------------------------------------------------------------------- *)

\* An outbound event: its name, its target ("room" for a lobby broadcast,
\* "caller" for socket.emit, else a player id), one payload field, a flag
\* (byDisconnect of gameEnd, opponentCards present of reconnected), and
\* whether the target socket is connected.
Ev(ev, to, arg, flag, isLive) ==
  [ev |-> ev, to |-> to, arg |-> arg, flag |-> flag, live |-> isLive]

\* io.to(player.socketId).emit(ev, ...)
EmitTo(w, p, ev, arg, flag) ==
  [w EXCEPT !.out = @ \cup {Ev(ev, p, arg, flag, w.players[p].socketId \in w.live)}]

\* socket.emit(ev, ...) on the calling socket
EmitCaller(w, ev, arg, flag) ==
  [w EXCEPT !.out = @ \cup {Ev(ev, "caller", arg, flag, TRUE)}]

\* this.io.to(this.lobbyId).emit(ev, ...)
broadcast(w, ev, arg) ==
  [w EXCEPT !.out = @ \cup {Ev(ev, "room", arg, FALSE, w.live # {})}]

\* Note that method fn ran (with argument a).
Called(w, fn, a) == [w EXCEPT !.calls = @ \cup {<<fn, a>>}]

(* ---------------------------------------------------------------------- *)
(* Timer                                                                   *)
(* ---------------------------------------------------------------------- *)

\* The tick event each phase timer broadcasts.
TickEvent(kind) ==
  IF kind = "preview" THEN "previewTimerUpdate"
  ELSE IF kind = "continue" THEN "continueCountdown"
  ELSE "timerUpdate"

\* Timer.clear
TimerClear(t) == [t EXCEPT !.armed = FALSE]

\* Timer.pause that leaves the timeout and the interval armed.
TimerPause_keepsArmed(t) ==
  IF t.paused THEN t ELSE [t EXCEPT !.paused = TRUE]

\* Timer.pause
TimerPause(t) ==
  IF t.paused THEN t ELSE [t EXCEPT !.armed = FALSE, !.paused = TRUE]

\* Timer.resume: arms a new timeout and interval even if the timer had
\* completed or been cleared before it was paused.
TimerResume(t) ==
  IF ~t.paused THEN t ELSE [t EXCEPT !.armed = TRUE, !.paused = FALSE]

\* this.timer.clear() on the session's timer (a no-op on null in the callers
\* that test it; the others run after a timer was installed).
ClearSessionTimer(w) ==
  [w EXCEPT !.session.timer = TimerClear(@)]

\* this.timer = new Timer(...); this.timer.start(): the previous Timer object
\* is dropped, not cleared; the new one is armed and sends its first tick.
StartTimer(w, kind) ==
  LET old == w.session.timer
      w1 == IF old.armed THEN [w EXCEPT !.leaked[old.kind] = @ + 1] ELSE w
      w2 == [w1 EXCEPT !.session.timer =
                         [kind |-> kind, armed |-> TRUE, paused |-> FALSE]]
  IN broadcast(w2, TickEvent(kind), "")

(* ---------------------------------------------------------------------- *)
(* GameSession                                                             *)
(* ---------------------------------------------------------------------- *)

\* isCompleted
isCompleted(s) == s.completed \/ s.phase = GamePhase.GAME_OVER

\* getOpponent: the first session player with another id.
getOpponent(s, pid) ==
  IF s.players[1] # pid THEN s.players[1] ELSE s.players[2]

\* hasDisconnectedPlayer that finds nobody.
hasDisconnectedPlayer_none(w) == FALSE

\* hasDisconnectedPlayer
hasDisconnectedPlayer(w) ==
  \E i \in 1..Len(w.session.players) : w.players[w.session.players[i]].disconnected

\* Player.getCardForRound: sequence[roundIndex] || null, null being -1.
getCardForRound(pl, roundIndex) ==
  IF roundIndex + 1 \in 1..Len(pl.sequence) THEN pl.sequence[roundIndex + 1] ELSE -1

\* The session's first end, for the record.
NoteEnded(w, how) == IF w.ended = "no" THEN [w EXCEPT !.ended = how] ELSE w

\* endGame
endGame(w) ==
  LET s == w.session
      p1 == s.players[1]
      p2 == s.players[2]
      w1 == [w EXCEPT !.session.phase = GamePhase.GAME_OVER,
                      !.session.completed = TRUE,
                      !.session.timer = TimerClear(@)]
      winner == determineGameWinner(p1, w.players[p1].score, p2, w.players[p2].score)
      w2 == EmitTo(EmitTo(w1, p1, "gameEnd", winner, FALSE), p2, "gameEnd", winner, FALSE)
  IN NoteEnded(Called(w2, "endGame", ""), "score")

\* endGameByDisconnect
endGameByDisconnect(w, winnerId) ==
  LET s == w.session
      loser == getOpponent(s, winnerId)
      w1 == [w EXCEPT !.session.phase = GamePhase.GAME_OVER,
                      !.session.completed = TRUE,
                      !.session.timer = TimerClear(@)]
      w2 == EmitTo(w1, winnerId, "gameEnd", winnerId, TRUE)
      w3 == IF ~w.players[loser].disconnected
            THEN EmitTo(w2, loser, "gameEnd", winnerId, TRUE)
            ELSE w2
  IN NoteEnded(Called(w3, "endGameByDisconnect", winnerId), "disconnect")

\* pause
pause(w) ==
  IF w.session.phase \in {GamePhase.GAME_OVER, GamePhase.PAUSED} THEN w
  ELSE Called([w EXCEPT !.session.previousPhase = w.session.phase,
                        !.session.phase = GamePhase.PAUSED,
                        !.session.paused = TRUE,
                        !.session.timer =
                           IF @.kind = "none" THEN @ ELSE TimerPause(@)],
              "pause", "")

\* resume
\* GameSession.resume scheduling the pending round without the gameResumed
\* broadcast.
resume_silent(w) ==
  IF ~w.session.paused \/ w.session.phase # GamePhase.PAUSED THEN w
  ELSE
    LET w1 == Called([w EXCEPT !.session.phase = w.session.previousPhase,
                               !.session.previousPhase = NoPhase,
                               !.session.paused = FALSE],
                     "resume", "")
    IN IF w1.session.pendingRoundStart
       THEN [w1 EXCEPT !.deferred = @ + 1]
       ELSE LET t == w1.session.timer
                w2 == [w1 EXCEPT !.session.timer = TimerResume(t)]
                w3 == IF t.kind # "none" /\ t.paused
                      THEN broadcast(w2, TickEvent(t.kind), "")
                      ELSE w2
            IN broadcast(w3, "gameResumed", w1.session.phase)

resume(w) ==
  IF ~w.session.paused \/ w.session.phase # GamePhase.PAUSED THEN w
  ELSE
    LET w1 == Called([w EXCEPT !.session.phase = w.session.previousPhase,
                               !.session.previousPhase = NoPhase,
                               !.session.paused = FALSE],
                     "resume", "")
    IN IF w1.session.pendingRoundStart
       THEN [broadcast(w1, "gameResumed", w1.session.phase)
               EXCEPT !.deferred = @ + 1]
       ELSE LET t == w1.session.timer
                w2 == [w1 EXCEPT !.session.timer = TimerResume(t)]
                w3 == IF t.kind # "none" /\ t.paused
                      THEN broadcast(w2, TickEvent(t.kind), "")
                      ELSE w2
            IN broadcast(w3, "gameResumed", w1.session.phase)

\* startSwapTimer
startSwapTimer(w) == StartTimer(w, "swap")

\* Player.resetRound
resetRound(pl) == [pl EXCEPT !.swappedThisRound = FALSE, !.ready = FALSE]

\* startRound
startRound(w) ==
  LET s == w.session
      w0 == Called(w, "startRound", "")
  IN IF s.currentRound >= totalRounds THEN endGame(w0)
     ELSE IF hasDisconnectedPlayer(w0)
     THEN LET w1 == [w0 EXCEPT !.session.pendingRoundStart = TRUE,
                               !.session.phase = GamePhase.ROUND_START]
              w2 == pause(w1)
              a == s.players[1]
              b == s.players[2]
              w3 == IF ~w2.players[a].disconnected
                    THEN EmitTo(w2, a, "opponentDisconnected", "", FALSE) ELSE w2
          IN IF ~w3.players[b].disconnected
             THEN EmitTo(w3, b, "opponentDisconnected", "", FALSE) ELSE w3
     ELSE LET w1 == [w0 EXCEPT !.session.pendingRoundStart = FALSE,
                               !.session.phase = GamePhase.SWAP,
                               !.players[s.players[1]] = resetRound(@),
                               !.players[s.players[2]] = resetRound(@)]
              w2 == broadcast(w1, "roundStart", ToString(s.currentRound + 1))
          IN startSwapTimer(w2)

\* startContinueTimer
startContinueTimer(w) == StartTimer(w, "continue")

\* An addScore that counts the points twice.
addScore_twice(pl, points) == [pl EXCEPT !.score = @ + 2 * points]

\* Player.addScore
addScore(pl, points) == [pl EXCEPT !.score = @ + points]

\* A revealCards that leaves currentRound as it is.
revealCards_again(w) ==
  LET s == w.session
      p1 == s.players[1]
      p2 == s.players[2]
      card1 == getCardForRound(w.players[p1], s.currentRound)
      card2 == getCardForRound(w.players[p2], s.currentRound)
      w0 == Called([w EXCEPT !.session.phase = GamePhase.REVEAL], "revealCards", "")
  IN IF card1 = -1 \/ card2 = -1 THEN [w0 EXCEPT !.crashed = TRUE]
     ELSE
       LET result == determineWinner(card1, card2)
           roundWinner == IF result = 1 THEN p1 ELSE IF result = 2 THEN p2 ELSE "none"
           w1 == IF result = 1 THEN [w0 EXCEPT !.players[p1] = addScore(@, 1)]
                 ELSE IF result = 2 THEN [w0 EXCEPT !.players[p2] = addScore(@, 1)]
                 ELSE w0
           roundResult == [round |-> s.currentRound + 1, card1 |-> card1,
                           card2 |-> card2, winner |-> roundWinner]
           w2 == [w1 EXCEPT !.session.roundHistory = Append(@, roundResult)]
           w3 == EmitTo(EmitTo(w2, p1, "roundResult", roundWinner, FALSE),
                        p2, "roundResult", roundWinner, FALSE)
           w4 == [w3 EXCEPT !.session.continueReady = {}]
       IN startContinueTimer(w4)

\* revealCards.  A null card makes determineWinner throw: the exception
\* leaves the phase at reveal and ends the process.
revealCards(w) ==
  LET s == w.session
      p1 == s.players[1]
      p2 == s.players[2]
      card1 == getCardForRound(w.players[p1], s.currentRound)
      card2 == getCardForRound(w.players[p2], s.currentRound)
      w0 == Called([w EXCEPT !.session.phase = GamePhase.REVEAL], "revealCards", "")
  IN IF card1 = -1 \/ card2 = -1 THEN [w0 EXCEPT !.crashed = TRUE]
     ELSE
       LET result == determineWinner(card1, card2)
           roundWinner == IF result = 1 THEN p1 ELSE IF result = 2 THEN p2 ELSE "none"
           w1 == IF result = 1 THEN [w0 EXCEPT !.players[p1] = addScore(@, 1)]
                 ELSE IF result = 2 THEN [w0 EXCEPT !.players[p2] = addScore(@, 1)]
                 ELSE w0
           roundResult == [round |-> s.currentRound + 1, card1 |-> card1,
                           card2 |-> card2, winner |-> roundWinner]
           w2 == [w1 EXCEPT !.session.roundHistory = Append(@, roundResult)]
           w3 == EmitTo(EmitTo(w2, p1, "roundResult", roundWinner, FALSE),
                        p2, "roundResult", roundWinner, FALSE)
           w4 == [w3 EXCEPT !.session.currentRound = @ + 1,
                            !.session.continueReady = {}]
       IN startContinueTimer(w4)

\* checkSwapPhaseComplete
checkSwapPhaseComplete(w) ==
  IF \A i \in 1..2 : w.players[w.session.players[i]].ready
  THEN revealCards(ClearSessionTimer(w))
  ELSE w

\* onSwapTimeout
onSwapTimeout(w) ==
  LET s == w.session
  IN revealCards([w EXCEPT !.players[s.players[1]].ready = TRUE,
                           !.players[s.players[2]].ready = TRUE])

\* onContinueTimeout
onContinueTimeout(w) ==
  IF w.session.phase = GamePhase.REVEAL THEN startRound(w) ELSE w

\* handleContinue
handleContinue(w, pid) ==
  IF w.session.phase # GamePhase.REVEAL THEN w
  ELSE LET w1 == [w EXCEPT !.session.continueReady = @ \cup {pid}]
           w2 == EmitTo(w1, getOpponent(w.session, pid), "opponentContinued", "", FALSE)
       IN IF Cardinality(w2.session.continueReady) >= 2
          THEN startRound(ClearSessionTimer(w2))
          ELSE w2

\* startSequenceTimer
startSequenceTimer(w) == StartTimer(w, "sequence")

\* startSequencePhase
startSequencePhase(w) ==
  LET s == w.session
      w1 == [w EXCEPT !.session.phase = GamePhase.SEQUENCE,
                      !.session.previewReady = {}]
      w2 == EmitTo(EmitTo(w1, s.players[1], "gameStart", "", FALSE),
                   s.players[2], "gameStart", "", FALSE)
  IN startSequenceTimer(w2)

\* onPreviewTimeout
onPreviewTimeout(w) == startSequencePhase(w)

\* handlePreviewReady
handlePreviewReady(w, pid) ==
  IF w.session.phase # GamePhase.PREVIEW THEN w
  ELSE LET w1 == [w EXCEPT !.session.previewReady = @ \cup {pid}]
           w2 == EmitTo(w1, getOpponent(w.session, pid), "opponentPreviewReady", "", FALSE)
       IN IF Cardinality(w2.session.previewReady) >= 2
          THEN startSequencePhase(ClearSessionTimer(w2))
          ELSE w2

\* onSequenceTimeout: shuffled[p] is what Deck.shuffle returns for p's hand.
onSequenceTimeout(w, shuffled) ==
  LET auto(pl, sh) == IF ~pl.sequenceSet
                      THEN [pl EXCEPT !.sequence = sh, !.sequenceSet = TRUE]
                      ELSE pl
      a == w.session.players[1]
      b == w.session.players[2]
  IN startRound([w EXCEPT !.players[a] = auto(@, shuffled[a]),
                          !.players[b] = auto(@, shuffled[b])])

\* The set of card ids of a list.
IdSet(cards) == { cards[i] : i \in 1..Len(cards) }

\* A setSequence that compares the sizes only, not the cards.
setSequenceOk_sizesOnly(pl, sequence) ==
  /\ ~pl.sequenceSet
  /\ Len(sequence) = Len(pl.hand)
  /\ Cardinality(IdSet(pl.hand)) = Cardinality(IdSet(sequence))

\* Player.setSequence: whether it accepts the sequence.
setSequenceOk(pl, sequence) ==
  /\ ~pl.sequenceSet
  /\ Len(sequence) = Len(pl.hand)
  /\ Cardinality(IdSet(pl.hand)) = Cardinality(IdSet(sequence))
  /\ \A id \in IdSet(pl.hand) : id \in IdSet(sequence)

\* setPlayerSequence
setPlayerSequence(w, pid, sequence) ==
  IF w.session.phase # GamePhase.SEQUENCE THEN w
  ELSE IF setSequenceOk(w.players[pid], sequence)
  THEN LET w1 == [w EXCEPT !.players[pid].sequence = sequence,
                           !.players[pid].sequenceSet = TRUE]
           w2 == EmitTo(w1, pid, "sequenceConfirmed", "", FALSE)
       IN IF \A i \in 1..2 : w2.players[w2.session.players[i]].sequenceSet
          THEN startRound(ClearSessionTimer(w2))
          ELSE w2
  ELSE w

\* A canSwap with no limit for the game.
canSwap_noBudget(pl) == ~pl.swappedThisRound

\* Player.canSwap
canSwap(pl) == pl.swapsUsed < MAX_SWAPS_PER_GAME /\ ~pl.swappedThisRound

\* Player.swapCards: whether the swap is carried out.
swapCardsOk(pl, pos1, pos2) ==
  /\ canSwap(pl)
  /\ (pos1 - pos2 = 1 \/ pos2 - pos1 = 1)
  /\ ~(pos1 < 0 \/ pos2 < 0 \/ pos1 >= Len(pl.sequence) \/ pos2 >= Len(pl.sequence))

\* Player.swapCards: the player after a swap that is carried out.
swapCards(pl, pos1, pos2) ==
  [pl EXCEPT !.sequence = [@ EXCEPT ![pos1 + 1] = pl.sequence[pos2 + 1],
                                    ![pos2 + 1] = pl.sequence[pos1 + 1]],
             !.swapsUsed = @ + 1,
             !.swappedThisRound = TRUE]

\* handleSwap
\* GameSession.handleSwap without the block on already played cards.
handleSwap_anyPosition(w, pid, pos1, pos2) ==
  LET s == w.session
      pl == w.players[pid]
      actualPos1 == pos1 + s.currentRound
      actualPos2 == pos2 + s.currentRound
  IN IF s.phase # GamePhase.SWAP THEN w
     ELSE IF pl.ready THEN w
     ELSE IF swapCardsOk(pl, actualPos1, actualPos2)
     THEN LET w1 == [w EXCEPT !.players[pid] =
                        [swapCards(pl, actualPos1, actualPos2) EXCEPT
                           !.ready = TRUE, !.swapRound = s.currentRound]]
              w2 == EmitTo(w1, pid, "swapConfirmed", "", FALSE)
              w3 == EmitTo(w2, getOpponent(s, pid), "opponentSwapped", "", FALSE)
          IN checkSwapPhaseComplete(w3)
     ELSE EmitTo(w, pid, "swapError", "invalid", FALSE)

handleSwap(w, pid, pos1, pos2) ==
  LET s == w.session
      pl == w.players[pid]
      actualPos1 == pos1 + s.currentRound
      actualPos2 == pos2 + s.currentRound
  IN IF s.phase # GamePhase.SWAP THEN w
     ELSE IF pl.ready THEN w
     ELSE IF actualPos1 < s.currentRound \/ actualPos2 < s.currentRound
     THEN EmitTo(w, pid, "swapError", "played", FALSE)
     ELSE IF swapCardsOk(pl, actualPos1, actualPos2)
     THEN LET w1 == [w EXCEPT !.players[pid] =
                        [swapCards(pl, actualPos1, actualPos2) EXCEPT
                           !.ready = TRUE, !.swapRound = s.currentRound]]
              w2 == EmitTo(w1, pid, "swapConfirmed", "", FALSE)
              w3 == EmitTo(w2, getOpponent(s, pid), "opponentSwapped", "", FALSE)
          IN checkSwapPhaseComplete(w3)
     ELSE EmitTo(w, pid, "swapError", "invalid", FALSE)

\* handleSkipSwap
handleSkipSwap(w, pid) ==
  IF w.session.phase # GamePhase.SWAP THEN w
  ELSE IF w.players[pid].ready THEN w
  ELSE checkSwapPhaseComplete(
         EmitTo([w EXCEPT !.players[pid].ready = TRUE], pid, "skipConfirmed", "", FALSE))

\* startPreviewTimer
startPreviewTimer(w) == StartTimer(w, "preview")

\* start: hands[p] is what Deck.deal returns for p.
start(w, hands) ==
  LET a == w.session.players[1]
      b == w.session.players[2]
      w1 == [w EXCEPT !.players[a].hand = hands[a],
                      !.players[b].hand = hands[b],
                      !.session.phase = GamePhase.PREVIEW]
      w2 == EmitTo(EmitTo(w1, a, "cardsPreview", "", FALSE), b, "cardsPreview", "", FALSE)
  IN startPreviewTimer(w2)

\* A snapshot that reports the phase field as it is.
SnapshotPhase_raw(s) == s.phase

\* getStateForPlayer: the phase field of the snapshot.
SnapshotPhase(s) ==
  IF s.paused /\ s.previousPhase # NoPhase THEN s.previousPhase ELSE s.phase

(* ---------------------------------------------------------------------- *)
(* LobbyManager                                                            *)
(* ---------------------------------------------------------------------- *)

\* Seq without the elements equal to x.
Without(seq, x) == SelectSeq(seq, LAMBDA y : y # x)

\* disconnectedPlayers.delete(p), after clearTimeout on the handles named:
\* a handle that is not cleared stays armed with no record referring to it.
DeleteRec(w, p, clearExpiry, clearNotify) ==
  LET r == w.recs[p]
  IN IF ~r.present THEN w
     ELSE [w EXCEPT !.recs[p] = NoRec,
                    !.orphanExpiry[p] = IF r.timeout /\ ~clearExpiry THEN @ + 1 ELSE @,
                    !.orphanNotify[p] = IF r.notify /\ ~clearNotify THEN @ + 1 ELSE @]

\* disconnectedPlayers.set(p, {lobbyId, timeout, disconnectedAt}) with a new
\* 120 s timeout: a record already there is replaced, its handles not cleared.
SetRec(w, p) ==
  [DeleteRec(w, p, FALSE, FALSE) EXCEPT
     !.recs[p] = [present |-> TRUE, lobbyId |-> LobbyId, timeout |-> TRUE,
                  notify |-> FALSE, reattached |-> FALSE]]

\* cleanupLobby
cleanupLobby(w) ==
  IF ~w.lobby.exists THEN w
  ELSE
    LET w1 == IF w.lobby.session THEN ClearSessionTimer(w) ELSE w
        roster == w.lobby.players
        socks == { w.players[roster[i]].socketId : i \in 1..Len(roster) }
        w2 == [w1 EXCEPT !.mapped = @ \ socks,
                         !.recs = [q \in PlayerIds |->
                                     IF \E i \in 1..Len(roster) : roster[i] = q
                                     THEN NoRec ELSE @[q]],
                         !.lobby = NoLobby]
    IN Called(w2, "cleanupLobby", "")

\* validateLobby: whether the lobby is there and stays.
lobbyValid(w, lobbyId) ==
  /\ lobbyId = LobbyId
  /\ w.lobby.exists
  /\ ~(Len(w.lobby.players) = 0 \/ (w.lobby.session /\ isCompleted(w.session)))

\* validateLobby: the world after it (an invalid lobby is cleaned up).
validateLobby(w, lobbyId) ==
  IF lobbyId = LobbyId /\ w.lobby.exists /\ ~lobbyValid(w, lobbyId)
  THEN cleanupLobby(w)
  ELSE w

\* lobby.players.find(p => p.socketId === socket.id), "" if none.
PlayerOfSocket(w, sock) ==
  LET roster == w.lobby.players
      hits == { i \in 1..Len(roster) : w.players[roster[i]].socketId = sock }
  IN IF hits = {} THEN "" ELSE roster[CHOOSE i \in hits : \A j \in hits : i <= j]

\* lobby.players.find(p => p.id !== pid), "" if none.
OtherOnRoster(w, pid) ==
  LET roster == w.lobby.players
      hits == { i \in 1..Len(roster) : roster[i] # pid }
  IN IF hits = {} THEN "" ELSE roster[CHOOSE i \in hits : \A j \in hits : i <= j]

OnRoster(w, pid) == \E i \in 1..Len(w.lobby.players) : w.lobby.players[i] = pid

\* getValidatedContext: the caller's player id, "" if the event is dropped.
ContextPlayer(w, sock) ==
  IF sock \notin w.mapped THEN ""
  ELSE IF ~lobbyValid(w, LobbyId) THEN ""
  ELSE PlayerOfSocket(w, sock)

\* getValidatedContext: the world after it.
ContextWorld(w, sock) ==
  IF sock \notin w.mapped THEN w ELSE validateLobby(w, LobbyId)

\* createLobby
createLobby(w, sock, pid) ==
  LET w1 == [w EXCEPT !.players[pid] = NewPlayer(sock),
                      !.lobby = [exists |-> TRUE, players |-> <<pid>>,
                                 session |-> FALSE, allowed |-> {pid}],
                      !.mapped = @ \cup {sock}]
  IN EmitCaller(w1, "lobbyCreated", pid, FALSE)

\* A startGame that does not look at the connections.
startGame_unchecked(w, hands) ==
  LET roster == w.lobby.players
      connected(q) == w.players[q].socketId \in w.live
  IN IF ~w.lobby.exists \/ Len(roster) # 2 THEN w
     ELSE start([w EXCEPT !.session = NewSession(TRUE, roster),
                          !.lobby.session = TRUE],
                hands)

\* startGame
startGame(w, hands) ==
  LET roster == w.lobby.players
      connected(q) == w.players[q].socketId \in w.live
  IN IF ~w.lobby.exists \/ Len(roster) # 2 THEN w
     ELSE IF ~(\A i \in 1..2 : connected(roster[i]))
     THEN LET rest == SelectSeq(roster, connected)
              gone == { w.players[roster[i]].socketId :
                          i \in { j \in 1..2 : ~connected(roster[j]) } }
              w1 == [w EXCEPT !.lobby.players = rest, !.mapped = @ \ gone]
          IN IF Len(rest) = 1 THEN EmitTo(w1, rest[1], "opponentLeft", "", FALSE) ELSE w1
     ELSE start([w EXCEPT !.session = NewSession(TRUE, roster),
                          !.lobby.session = TRUE],
                hands)

\* A snapshot that carries the opponent's hand in every phase.
EmitSnapshot_withHand(w) ==
  EmitCaller(w, "reconnected", SnapshotPhase(w.session), TRUE)

\* The reconnected event: the snapshot of getStateForPlayer.
EmitSnapshot(w) ==
  EmitCaller(w, "reconnected", SnapshotPhase(w.session),
             SnapshotPhase(w.session) = GamePhase.PREVIEW)

\* joinLobby, rejoin branch: clientPlayerId is on the roster.
rejoin(w, sock, pid) ==
  LET opponent == OtherOnRoster(w, pid)
      w1 == [w EXCEPT !.players[pid].socketId = sock,
                      !.players[pid].disconnected = FALSE,
                      !.recs[pid].reattached = w.recs[pid].present,
                      !.mapped = @ \cup {sock}]
      w2 == Called(EmitCaller(w1, "lobbyJoined", pid, FALSE), "rejoin", pid)
  IN IF ~w2.lobby.session THEN w2
     ELSE IF isCompleted(w2.session)
     THEN cleanupLobby(EmitCaller(w2, "error", "Game has ended", FALSE))
     ELSE LET w3 == EmitSnapshot(w2)
          IN IF opponent # "" /\ ~w3.players[opponent].disconnected
             THEN EmitTo(resume(w3), opponent, "opponentReconnected", "", FALSE)
             ELSE IF opponent # "" /\ w3.players[opponent].disconnected
             THEN EmitCaller(w3, "opponentDisconnected", "", FALSE)
             ELSE w3

\* A joinLobby that turns nobody away from a lobby it finds.
joinLobby_admitsAll(w, sock, lobbyId, pid, hands) ==
  LET w0 == validateLobby(w, lobbyId)
  IN IF ~lobbyValid(w, lobbyId)
     THEN EmitCaller(w0, "error", "Lobby not found", FALSE)
     ELSE IF OnRoster(w0, pid) THEN rejoin(w0, sock, pid)
     ELSE
       LET first == w0.lobby.players[1]
           evict == Len(w0.lobby.players) = 1
                    /\ w0.players[first].socketId \notin w0.live
           w1 == IF evict
                 THEN [w0 EXCEPT !.lobby.players = <<>>,
                                 !.mapped = @ \ {w0.players[first].socketId}]
                 ELSE w0
           w2 == [w1 EXCEPT !.players[pid] = NewPlayer(sock),
                            !.lobby.players = Append(@, pid),
                            !.lobby.allowed = @ \cup {pid},
                            !.mapped = @ \cup {sock}]
       IN IF Len(w2.lobby.players) = 1
          THEN EmitCaller(w2, "lobbyCreated", pid, FALSE)
          ELSE LET w3 == EmitCaller(w2, "lobbyJoined", pid, FALSE)
                   w4 == EmitTo(w3, w2.lobby.players[1], "playerJoined", "", FALSE)
               IN startGame(w4, hands)

\* joinLobby
joinLobby(w, sock, lobbyId, pid, hands) ==
  LET w0 == validateLobby(w, lobbyId)
  IN IF ~lobbyValid(w, lobbyId)
     THEN EmitCaller(w0, "error", "Lobby not found", FALSE)
     ELSE IF OnRoster(w0, pid) THEN rejoin(w0, sock, pid)
     ELSE IF Len(w0.lobby.players) >= 2
     THEN EmitCaller(w0, "error", "Lobby is full", FALSE)
     ELSE IF w0.lobby.session
     THEN EmitCaller(w0, "error", "Game already in progress", FALSE)
     ELSE
       LET first == w0.lobby.players[1]
           evict == Len(w0.lobby.players) = 1
                    /\ w0.players[first].socketId \notin w0.live
           w1 == IF evict
                 THEN [w0 EXCEPT !.lobby.players = <<>>,
                                 !.mapped = @ \ {w0.players[first].socketId}]
                 ELSE w0
           w2 == [w1 EXCEPT !.players[pid] = NewPlayer(sock),
                            !.lobby.players = Append(@, pid),
                            !.lobby.allowed = @ \cup {pid},
                            !.mapped = @ \cup {sock}]
       IN IF Len(w2.lobby.players) = 1
          THEN EmitCaller(w2, "lobbyCreated", pid, FALSE)
          ELSE LET w3 == EmitCaller(w2, "lobbyJoined", pid, FALSE)
                   w4 == EmitTo(w3, w2.lobby.players[1], "playerJoined", "", FALSE)
               IN startGame(w4, hands)

\* A leave that removes the lobby and declares no winner.
handleLeaveLobby_noForfeit(w, sock) ==
  IF sock \notin w.mapped THEN w
  ELSE
    LET w0 == validateLobby(w, LobbyId)
        pid == PlayerOfSocket(w0, sock)
    IN IF ~lobbyValid(w, LobbyId) \/ pid = ""
       THEN [w0 EXCEPT !.mapped = @ \ {sock}]
       ELSE
         LET w1 == DeleteRec(w0, pid, TRUE, FALSE)
             w2 == Called([w1 EXCEPT !.lobby.players = Without(@, pid),
                                     !.mapped = @ \ {sock}],
                          "handleLeaveLobby", pid)
         IN IF Len(w2.lobby.players) = 0 THEN cleanupLobby(w2)
            ELSE IF w2.lobby.session /\ ~isCompleted(w2.session)
            THEN LET otherPlayer == w2.lobby.players[1]
                 IN IF ~w2.players[otherPlayer].disconnected
                    THEN cleanupLobby(w2)
                    ELSE cleanupLobby(
                           DeleteRec(
                             ClearSessionTimer([w2 EXCEPT !.session.completed = TRUE]),
                             otherPlayer, TRUE, FALSE))
            ELSE IF ~w2.lobby.session THEN cleanupLobby(w2)
            ELSE w2

\* handleLeaveLobby
handleLeaveLobby(w, sock) ==
  IF sock \notin w.mapped THEN w
  ELSE
    LET w0 == validateLobby(w, LobbyId)
        pid == PlayerOfSocket(w0, sock)
    IN IF ~lobbyValid(w, LobbyId) \/ pid = ""
       THEN [w0 EXCEPT !.mapped = @ \ {sock}]
       ELSE
         LET w1 == DeleteRec(w0, pid, TRUE, FALSE)
             w2 == Called([w1 EXCEPT !.lobby.players = Without(@, pid),
                                     !.mapped = @ \ {sock}],
                          "handleLeaveLobby", pid)
         IN IF Len(w2.lobby.players) = 0 THEN cleanupLobby(w2)
            ELSE IF w2.lobby.session /\ ~isCompleted(w2.session)
            THEN LET otherPlayer == w2.lobby.players[1]
                 IN IF ~w2.players[otherPlayer].disconnected
                    THEN cleanupLobby(endGameByDisconnect(w2, otherPlayer))
                    ELSE cleanupLobby(
                           DeleteRec(
                             ClearSessionTimer([w2 EXCEPT !.session.completed = TRUE]),
                             otherPlayer, TRUE, FALSE))
            ELSE IF ~w2.lobby.session THEN cleanupLobby(w2)
            ELSE w2

\* handlePlayAgain
handlePlayAgain(w, sock) == handleLeaveLobby(w, sock)

\* handleDisconnect: session.previousPhase || session.phase
currentPhase(s) == IF s.previousPhase # NoPhase THEN s.previousPhase ELSE s.phase

\* handleDisconnect, once the socket is gone.
handleDisconnect(w, sock) ==
  IF sock \notin w.mapped THEN w
  ELSE
    LET w0 == validateLobby(w, LobbyId)
        pid == PlayerOfSocket(w0, sock)
    IN IF ~lobbyValid(w, LobbyId) \/ pid = ""
       THEN [w0 EXCEPT !.mapped = @ \ {sock}]
       ELSE IF ~w0.lobby.session
       THEN LET w1 == [w0 EXCEPT !.lobby.players = Without(@, pid),
                                 !.mapped = @ \ {sock}]
            IN IF Len(w1.lobby.players) = 0 THEN cleanupLobby(w1) ELSE w1
       ELSE
         IF currentPhase(w0.session) = GamePhase.REVEAL
            THEN Called(
                   SetRec([w0 EXCEPT !.players[pid].disconnected = TRUE,
                                     !.mapped = @ \ {sock}], pid),
                   "handleDisconnect", "reveal")
            ELSE
              LET w1 == SetRec(w0, pid)
                  w2 == pause([w1 EXCEPT !.players[pid].disconnected = TRUE])
                  otherPlayer == OtherOnRoster(w2, pid)
                  w3 == IF otherPlayer # "" /\ ~w2.players[otherPlayer].disconnected
                        THEN [w2 EXCEPT !.recs[pid].notify = TRUE]
                        ELSE w2
                  w4 == Called([w3 EXCEPT !.mapped = @ \ {sock}],
                               "handleDisconnect", "pause")
                  roster == w4.lobby.players
              IN IF \A i \in 1..Len(roster) : w4.players[roster[i]].disconnected
                 THEN cleanupLobby(
                        ClearSessionTimer([w4 EXCEPT !.session.completed = TRUE]))
                 ELSE w4

\* A test that looks for the record only, not at the lobby it names.
InvalidReconnect_anyLobby(disconnectInfo, lobbyId) ==
  ~disconnectInfo.present

\* handleReconnect: the test that rejects the attempt.
InvalidReconnect(disconnectInfo, lobbyId) ==
  ~disconnectInfo.present \/ disconnectInfo.lobbyId # lobbyId

\* handleReconnect
handleReconnect(w, sock, lobbyId, pid) ==
  LET disconnectInfo == w.recs[pid]
  IN IF InvalidReconnect(disconnectInfo, lobbyId)
     THEN EmitCaller(w, "error", "Invalid reconnection attempt", FALSE)
     ELSE
       LET w0 == validateLobby(w, lobbyId)
       IN IF ~lobbyValid(w, lobbyId)
          THEN DeleteRec(EmitCaller(w0, "error", "Lobby no longer exists", FALSE),
                         pid, TRUE, FALSE)
          ELSE IF ~OnRoster(w0, pid)
          THEN DeleteRec(EmitCaller(w0, "error", "Player not found", FALSE),
                         pid, TRUE, FALSE)
          ELSE
            LET otherPlayer == OtherOnRoster(w0, pid)
            IN IF otherPlayer = ""
               THEN cleanupLobby(
                      DeleteRec(EmitCaller(w0, "error", "Opponent left the game", FALSE),
                                pid, TRUE, FALSE))
               ELSE
                 LET w1 == DeleteRec(w0, pid, TRUE, TRUE)
                     w2 == Called([w1 EXCEPT !.players[pid].socketId = sock,
                                             !.players[pid].disconnected = FALSE,
                                             !.mapped = @ \cup {sock}],
                                  "handleReconnect", pid)
                 IN IF ~w2.lobby.session THEN w2
                    ELSE LET w3 == EmitSnapshot(w2)
                         IN IF ~w3.players[otherPlayer].disconnected
                            THEN EmitTo(resume(w3), otherPlayer,
                                        "opponentReconnected", "", FALSE)
                            ELSE EmitCaller(w3, "opponentDisconnected", "", FALSE)

\* A reconnect timeout that removes the lobby and ends no game.
handleReconnectTimeout_noForfeit(w, pid) ==
  IF ~w.lobby.exists THEN w
  ELSE IF ~OnRoster(w, pid) THEN w
  ELSE cleanupLobby(Called(DeleteRec(w, pid, FALSE, FALSE),
                           "handleReconnectTimeout", pid))

\* handleReconnectTimeout
handleReconnectTimeout(w, pid) ==
  IF ~w.lobby.exists THEN w
  ELSE IF ~OnRoster(w, pid) THEN w
  ELSE
    LET otherPlayer == OtherOnRoster(w, pid)
        w1 == IF w.lobby.session /\ otherPlayer # ""
              THEN endGameByDisconnect(w, otherPlayer)
              ELSE w
    IN cleanupLobby(Called(DeleteRec(w1, pid, FALSE, FALSE),
                           "handleReconnectTimeout", pid))

(* ---------------------------------------------------------------------- *)
(* Actions: one per inbound event and per timer callback                   *)
(* ---------------------------------------------------------------------- *)

\* Client events are followed while the lobby is in the lobbies map.  Once it
\* is removed, a join is answered "Lobby not found", a reconnect "Invalid
\* reconnection attempt", and every other event is dropped before it reaches
\* the session; only the callbacks still armed act on the session then.
ClientsActive == ~crashed /\ lobby.exists

\* A client connects: the world with the new socket connected.
Connected(w) == [w EXCEPT !.live = @ \cup {nextSock}]

\* The identities a joining client may present: a fresh identity takes the
\* lowest free name (identities are interchangeable).
JoinIds == { pid \in PlayerIds : pid = "p3" => "p2" \in lobby.allowed }

\* The first client connects and sends createLobby.
CreateLobby ==
  /\ ~crashed
  /\ nextSock = 1
  /\ Commit(createLobby(Connected(World), nextSock, "p1"))
  /\ nextSock' = nextSock + 1

\* A client connects and sends joinLobby.
JoinLobby ==
  /\ ClientsActive
  /\ nextSock \in 2..MaxSockets
  /\ \E lobbyId \in LobbyIds, pid \in JoinIds, deal \in Deals :
       Commit(joinLobby(Connected(World), nextSock, lobbyId, pid,
                        [q \in PlayerIds |-> IF q = pid THEN deal[2] ELSE deal[1]]))
  /\ nextSock' = nextSock + 1

\* A client connects and sends reconnect; the payload is noted in the log.
Reconnect ==
  /\ ClientsActive
  /\ nextSock \in 2..MaxSockets
  /\ \E lobbyId \in LobbyIds, pid \in PlayerIds :
       Commit(handleReconnect(
                Called(Called(Connected(World), "reconnect", pid), "reconnectLobby", lobbyId),
                nextSock, lobbyId, pid))
  /\ nextSock' = nextSock + 1

\* A connection drops.
Disconnect ==
  /\ ClientsActive
  /\ \E sock \in live :
       Commit(handleDisconnect([World EXCEPT !.live = @ \ {sock}], sock))
  /\ UNCHANGED nextSock

\* Whether a game event of the socket gets past the first return of the
\* session method for the given phase, or makes validateLobby remove the lobby;
\* any other event returns with nothing done.
Reaches(sock, phase) ==
  /\ sock \in mapped
  /\ \/ ~lobbyValid(World, LobbyId)
     \/ /\ ContextPlayer(World, sock) # ""
        /\ lobby.session
        /\ session.phase = phase

\* A game event of a connected socket: dropped unless getValidatedContext
\* finds the caller's player and the lobby has a session.
\* handled is the world after the session method, used if the event gets there.
GameEvent(sock, handled) ==
  LET w0 == ContextWorld(World, sock)
      pid == ContextPlayer(World, sock)
  IN IF pid = "" \/ ~w0.lobby.session THEN w0 ELSE handled

PreviewReady ==
  /\ ClientsActive
  /\ \E sock \in live :
       /\ Reaches(sock, GamePhase.PREVIEW)
       /\ Commit(GameEvent(sock, handlePreviewReady(ContextWorld(World, sock),
                                                       ContextPlayer(World, sock))))
  /\ UNCHANGED nextSock

SetSequence ==
  /\ ClientsActive
  /\ \E sock \in live :
       LET pid == ContextPlayer(World, sock)
           hand == IF pid = "" THEN <<>> ELSE players[pid].hand
       IN \E sequence \in SequenceInputs(hand) :
            /\ Reaches(sock, GamePhase.SEQUENCE)
            /\ Commit(GameEvent(sock, setPlayerSequence(ContextWorld(World, sock), pid, sequence)))
  /\ UNCHANGED nextSock

SwapCards ==
  /\ ClientsActive
  /\ \E sock \in live, pos \in SwapInputs :
       /\ Reaches(sock, GamePhase.SWAP)
       /\ Commit(GameEvent(sock, handleSwap(ContextWorld(World, sock),
                                          ContextPlayer(World, sock), pos[1], pos[2])))
  /\ UNCHANGED nextSock

SkipSwap ==
  /\ ClientsActive
  /\ \E sock \in live :
       /\ Reaches(sock, GamePhase.SWAP)
       /\ Commit(GameEvent(sock, handleSkipSwap(ContextWorld(World, sock),
                                                   ContextPlayer(World, sock))))
  /\ UNCHANGED nextSock

ContinueRound ==
  /\ ClientsActive
  /\ \E sock \in live :
       /\ Reaches(sock, GamePhase.REVEAL)
       /\ Commit(GameEvent(sock, handleContinue(ContextWorld(World, sock),
                                                   ContextPlayer(World, sock))))
  /\ UNCHANGED nextSock

\* leaveLobby
LeaveLobby ==
  /\ ClientsActive
  /\ \E sock \in live : Commit(handleLeaveLobby(World, sock))
  /\ UNCHANGED nextSock

\* playAgain
PlayAgain ==
  /\ ClientsActive
  /\ \E sock \in live : Commit(handlePlayAgain(World, sock))
  /\ UNCHANGED nextSock

\* The completion callback of a phase Timer of the given kind.
onComplete(w, kind, shuffled) ==
  IF kind = "preview" THEN onPreviewTimeout(w)
  ELSE IF kind = "sequence" THEN onSequenceTimeout(w, shuffled)
  ELSE IF kind = "swap" THEN onSwapTimeout(w)
  ELSE onContinueTimeout(w)

\* Outcomes of the shuffles of onSequenceTimeout.
Shuffles ==
  { sh \in [PlayerIds -> UNION { ShuffleChoices(players[q].hand) : q \in PlayerIds }] :
      \A q \in PlayerIds : sh[q] \in ShuffleChoices(players[q].hand) }

\* The session's Timer completes: it clears itself and runs its callback.
TimerComplete ==
  /\ ~crashed
  /\ session.timer.armed
  /\ \E shuffled \in Shuffles :
       Commit(onComplete(Called(ClearSessionTimer(World), "timerComplete", session.timer.kind),
                         session.timer.kind, shuffled))
  /\ UNCHANGED nextSock

\* A Timer the session no longer refers to completes.
LeakedTimerComplete ==
  /\ ~crashed
  /\ \E kind \in TimerKinds, shuffled \in Shuffles :
       /\ leaked[kind] > 0
       /\ Commit(onComplete(Called([World EXCEPT !.leaked[kind] = @ - 1],
                                   "leakedTimerComplete", kind),
                            kind, shuffled))
  /\ UNCHANGED nextSock

\* The one-second interval of an armed Timer ticks.
TimerTick ==
  /\ ~crashed
  /\ \E kind \in TimerKinds :
       /\ (session.timer.armed /\ session.timer.kind = kind) \/ leaked[kind] > 0
       /\ Commit(Called(broadcast(World, TickEvent(kind), ""), "tick", kind))
  /\ UNCHANGED nextSock

\* The 100 ms timeout set by resume runs startRound.
DeferredStartRound ==
  /\ ~crashed
  /\ deferred > 0
  /\ Commit(startRound(Called([World EXCEPT !.deferred = @ - 1], "deferredStartRound", "")))
  /\ UNCHANGED nextSock

\* The 120 s timeout of a reconnect record runs.  The record's 2 s notify
\* timeout was set in the same call of handleDisconnect, so it has run or has
\* been cleared by then.
ReconnectExpiry ==
  /\ ~crashed
  /\ \E pid \in PlayerIds :
       /\ recs[pid].present /\ recs[pid].timeout /\ ~recs[pid].notify
       /\ Commit(handleReconnectTimeout(
                   Called([World EXCEPT !.recs[pid].timeout = FALSE], "expiry",
                          IF recs[pid].reattached THEN "stale" ELSE "fresh"),
                   pid))
  /\ UNCHANGED nextSock

\* A 120 s timeout that no record refers to any more runs.  Once the lobby
\* is out of the lobbies map the callback returns on its first line.
OrphanExpiry ==
  /\ ~crashed
  /\ lobby.exists
  /\ \E pid \in PlayerIds :
       /\ orphanExpiry[pid] > 0
       /\ Commit(handleReconnectTimeout(
                   Called([World EXCEPT !.orphanExpiry[pid] = @ - 1], "expiry", "stale"),
                   pid))
  /\ UNCHANGED nextSock

\* The 2 s notify callback set by handleDisconnect.
notify(w, pid) ==
  IF w.players[pid].disconnected
  THEN EmitTo(w, getOpponent(w.session, pid), "opponentDisconnected", "118", FALSE)
  ELSE w

\* The 2 s notify timeout of a record, or one no record refers to, runs.
NotifyTimeout ==
  /\ ~crashed
  /\ \E pid \in PlayerIds :
       \/ /\ recs[pid].present /\ recs[pid].notify
          /\ Commit(notify(Called([World EXCEPT !.recs[pid].notify = FALSE], "notify", pid), pid))
       \/ /\ orphanNotify[pid] > 0
          /\ Commit(notify(Called([World EXCEPT !.orphanNotify[pid] = @ - 1], "notify", pid), pid))
  /\ UNCHANGED nextSock

(* ---------------------------------------------------------------------- *)
(* The play: the same handlers, with the inputs of the card game           *)
(* ---------------------------------------------------------------------- *)

\* A client connects and sends joinLobby for the lobby, as p1 or p2.
PlayJoin ==
  /\ ClientsActive
  /\ nextSock \in 2..PlaySockets
  /\ \E pid \in {"p1", "p2"}, deal \in Deals :
       Commit(joinLobby(Connected(World), nextSock, LobbyId, pid,
                        [q \in PlayerIds |-> IF q = pid THEN deal[2] ELSE deal[1]]))
  /\ nextSock' = nextSock + 1

PlaySetSequence ==
  /\ ClientsActive
  /\ \E sock \in live :
       LET pid == ContextPlayer(World, sock)
           hand == IF pid = "" THEN <<>> ELSE players[pid].hand
       IN \E sequence \in PlaySequenceInputs(hand) :
            /\ Reaches(sock, GamePhase.SEQUENCE)
            /\ Commit(GameEvent(sock, setPlayerSequence(ContextWorld(World, sock), pid, sequence)))
  /\ UNCHANGED nextSock

\* swapCards; the caller and the positions sent are noted in the log.
PlaySwap ==
  /\ ClientsActive
  /\ \E sock \in live, pos \in PlaySwapInputs :
       LET pid == ContextPlayer(World, sock)
           w0 == Called(Called(ContextWorld(World, sock), "swapCards", pid),
                        "swapPositions", ToString(pos))
       IN /\ Reaches(sock, GamePhase.SWAP)
          /\ Commit(GameEvent(sock, handleSwap(w0, pid, pos[1], pos[2])))
  /\ UNCHANGED nextSock

\* Outcomes of the shuffles of onSequenceTimeout in the play; the other
\* callbacks shuffle nothing.
PlayShuffles ==
  IF session.timer.kind # "sequence" THEN Shuffles
  ELSE
    { sh \in [PlayerIds -> UNION { PlayShuffleChoices(players[q].hand) : q \in PlayerIds }] :
        \A q \in PlayerIds : sh[q] \in PlayShuffleChoices(players[q].hand) }

PlayTimerComplete ==
  /\ ~crashed
  /\ session.timer.armed
  /\ \E shuffled \in PlayShuffles :
       Commit(onComplete(Called(ClearSessionTimer(World), "timerComplete", session.timer.kind),
                         session.timer.kind, shuffled))
  /\ UNCHANGED nextSock

PlayNext ==
  \/ CreateLobby
  \/ PlayJoin
  \/ PlaySetSequence
  \/ PlaySwap
  \/ PlayTimerComplete

PlaySpec == Init /\ [][PlayNext]_vars

(* ---------------------------------------------------------------------- *)
(* The returns: players who drop and rejoin while swaps are made           *)
(* ---------------------------------------------------------------------- *)

\* The game has not got past the reveal of round ReturnRounds.
Early == session.currentRound < ReturnRounds

ReturnJoin ==
  /\ Early
  /\ ClientsActive
  /\ nextSock \in 2..MaxSockets
  /\ \E pid \in {"p1", "p2"}, deal \in Deals :
       Commit(joinLobby(Connected(World), nextSock, LobbyId, pid,
                        [q \in PlayerIds |-> IF q = pid THEN deal[2] ELSE deal[1]]))
  /\ nextSock' = nextSock + 1

ReturnDisconnect == Early /\ Disconnect

\* swapCards with the first two of the remaining cards.
ReturnSwap ==
  /\ Early
  /\ ClientsActive
  /\ \E sock \in live :
       /\ Reaches(sock, GamePhase.SWAP)
       /\ Commit(GameEvent(sock, handleSwap(ContextWorld(World, sock),
                                          ContextPlayer(World, sock), 0, 1)))
  /\ UNCHANGED nextSock

ReturnTimerComplete == Early /\ TimerComplete

ReturnLeakedTimerComplete == Early /\ LeakedTimerComplete

ReturnDeferredStartRound == Early /\ DeferredStartRound

ReturnNext ==
  \/ CreateLobby
  \/ ReturnJoin
  \/ ReturnDisconnect
  \/ ReturnSwap
  \/ ReturnTimerComplete
  \/ ReturnLeakedTimerComplete
  \/ ReturnDeferredStartRound

ReturnSpec == Init /\ [][ReturnNext]_vars

(* ---------------------------------------------------------------------- *)
(* The phase machines: GameStateMachine on its own, then the session       *)
(* ---------------------------------------------------------------------- *)

\* The values of GamePhase.
PhaseValues == { GamePhase[k] : k \in DOMAIN GamePhase }

\* The machine after a call of the method named, with what it returned.
Did(m, method, returned) == [m EXCEPT !.last = method, !.returned = returned]

\* A GameStateMachine.transition without its test of the paused flag.
transition_whilePaused(m, newPhase) ==
  IF m.phase = GamePhase.GAME_OVER /\ newPhase # GamePhase.GAME_OVER
  THEN Did(m, "transition", "threw")
  ELSE Did([m EXCEPT !.phase = newPhase], "transition", "true")

\* GameStateMachine.transition
transition(m, newPhase) ==
  IF m.isPaused THEN Did(m, "transition", "threw")
  ELSE IF m.phase = GamePhase.GAME_OVER /\ newPhase # GamePhase.GAME_OVER
  THEN Did(m, "transition", "threw")
  ELSE Did([m EXCEPT !.phase = newPhase], "transition", "true")

\* A GameStateMachine.pause that tests the game-over phase only.
machinePause_again(m) ==
  IF m.phase = GamePhase.GAME_OVER THEN Did(m, "pause", "false")
  ELSE Did([m EXCEPT !.savedPhase = m.phase,
                     !.phase = GamePhase.PAUSED,
                     !.isPaused = TRUE],
           "pause", "true")

\* GameStateMachine.pause
machinePause(m) ==
  IF m.isPaused \/ m.phase = GamePhase.GAME_OVER THEN Did(m, "pause", "false")
  ELSE Did([m EXCEPT !.savedPhase = m.phase,
                     !.phase = GamePhase.PAUSED,
                     !.isPaused = TRUE],
           "pause", "true")

\* GameStateMachine.resume
machineResume(m) ==
  IF ~m.isPaused \/ m.phase # GamePhase.PAUSED THEN Did(m, "resume", "false")
  ELSE Did([m EXCEPT !.phase = m.savedPhase,
                     !.savedPhase = NoPhase,
                     !.isPaused = FALSE],
           "resume", "true")

\* GameStateMachine.setPendingAction
setPendingAction(m, action) ==
  Did([m EXCEPT !.pendingAction = action], "setPendingAction", "undefined")

\* GameStateMachine.consumePendingAction
consumePendingAction(m) ==
  Did([m EXCEPT !.pendingAction = NoAction], "consumePendingAction",
      m.pendingAction)

\* GameStateMachine.endGame
machineEndGame(m) ==
  LET m1 == IF m.isPaused
            THEN [m EXCEPT !.isPaused = FALSE, !.savedPhase = NoPhase]
            ELSE m
  IN Did([m1 EXCEPT !.phase = GamePhase.GAME_OVER], "endGame", "undefined")

\* GameStateMachine.reset
reset(m, initialPhase) ==
  Did([m EXCEPT !.phase = initialPhase, !.savedPhase = NoPhase,
                !.isPaused = FALSE, !.pendingAction = NoAction],
      "reset", "undefined")

\* A method of the machine is called.  The class is exercised on its own,
\* while no client has connected: the server and the machine share no state.
MachineCall(m) ==
  /\ nextSock = 1
  /\ machine' = m
  /\ UNCHANGED <<lobby, players, session, leaked, deferred, recs,
                 orphanExpiry, orphanNotify, live, mapped, nextSock, out,
                 calls, ended, crashed, bench, deck>>

MachineTransition ==
  \E newPhase \in PhaseValues : MachineCall(transition(machine, newPhase))

MachinePause == MachineCall(machinePause(machine))

MachineResume == MachineCall(machineResume(machine))

MachineSetPendingAction == MachineCall(setPendingAction(machine, "startRound"))

MachineConsumePendingAction == MachineCall(consumePendingAction(machine))

MachineEndGame == MachineCall(machineEndGame(machine))

MachineReset ==
  \E initialPhase \in PhaseValues : MachineCall(reset(machine, initialPhase))

\* The server starts with a machine nothing was called on.
PhaseCreateLobby == machine.last = "new" /\ CreateLobby

PhaseNext ==
  \/ MachineTransition
  \/ MachinePause
  \/ MachineResume
  \/ MachineSetPendingAction
  \/ MachineConsumePendingAction
  \/ MachineEndGame
  \/ MachineReset
  \/ PhaseCreateLobby
  \/ ReturnJoin
  \/ ReturnDisconnect
  \/ ReturnSwap
  \/ ReturnTimerComplete
  \/ ReturnLeakedTimerComplete
  \/ ReturnDeferredStartRound

PhaseSpec == Init /\ [][PhaseNext]_vars

(* ---------------------------------------------------------------------- *)
(* The Timer class on its own                                              *)
(* ---------------------------------------------------------------------- *)

\* Math.max(0, x)
Max0(x) == IF x < 0 THEN 0 ELSE x

\* Timer.clear
Timer_clear(t) == [t EXCEPT !.timeout = Null, !.interval = Null]

\* this.timeout = setTimeout(..., this.remaining * 1000): a timeout still
\* armed under the old handle keeps running, referred to by nobody.
SetCompletion(b) ==
  LET t == b.t
      b1 == IF t.timeout # Null THEN [b EXCEPT !.stray = @ \cup {t.timeout}] ELSE b
  IN [b1 EXCEPT !.t.timeout = b.now + t.remaining * Half]

\* if (this.onTick) { this.onTick(Math.ceil(this.remaining)); this.interval =
\* setInterval(..., 1000) }
SetTicks(b) ==
  IF b.t.onTick
  THEN [b EXCEPT !.shown = b.t.remaining, !.t.interval = b.now + Half]
  ELSE b

\* Timer.start
Timer_start(b) ==
  LET b1 == IF b.t.interval # Null THEN [b EXCEPT !.t = Timer_clear(@)] ELSE b
      b2 == [b1 EXCEPT !.t.startTime = b.now, !.t.paused = FALSE]
  IN SetTicks(SetCompletion(b2))

\* Timer.pause.  With startTime = null, Date.now() - null is the time since
\* the epoch: remaining becomes 0.
Timer_pause(b) ==
  LET t == b.t
      remaining == IF t.startTime = Null THEN 0
                   ELSE Max0(t.remaining - ((b.now - t.startTime) \div Half))
  IN IF t.paused THEN b
     ELSE [b EXCEPT !.t = [Timer_clear(t) EXCEPT !.remaining = remaining,
                                                 !.paused = TRUE]]

\* Timer.resume
Timer_resume(b) ==
  IF ~b.t.paused THEN b
  ELSE SetTicks(SetCompletion([b EXCEPT !.t.paused = FALSE,
                                        !.t.startTime = b.now,
                                        !.t.duration = b.t.remaining]))

\* Timer.getRemaining
Timer_getRemaining(b) ==
  LET t == b.t
  IN IF t.paused THEN t.remaining
     ELSE IF t.startTime # Null
     THEN Max0(t.remaining - ((b.now - t.startTime) \div Half))
     ELSE t.remaining

\* Timer.isRunning
Timer_isRunning(t) == t.timeout # Null /\ ~t.paused

\* The callback of setTimeout: this.clear(); this.onComplete().
OnTimeout(b) ==
  [b EXCEPT !.t = Timer_clear(@),
            !.completions = IF @ < MaxCompletions THEN @ + 1 ELSE @]

\* The callback of setInterval: the tick shows duration less the whole
\* seconds since startTime.
OnInterval(b) ==
  [b EXCEPT !.shown = Max0(b.t.duration - ((b.now - b.t.startTime) \div Half)),
            !.t.interval = @ + Half]

\* The timeouts and the interval that are due.
Due(b) ==
  {d \in b.stray \cup {b.t.timeout, b.t.interval} : d # Null /\ d <= b.now}

\* The bench after a method call or a callback, named in last.
Bench(b, last) == bench' = [b EXCEPT !.last = last]

\* Nothing of the server or of the machine changes.
TimerOnly ==
  UNCHANGED <<lobby, players, session, leaked, deferred, recs, orphanExpiry,
              orphanNotify, live, mapped, nextSock, out, calls, ended,
              crashed, machine, deck>>

\* new Timer(duration, onComplete, onTick); the object replaces the one on
\* the bench, whose armed callbacks are dropped with it.
TimerNew ==
  /\ \E duration \in Durations, onTick \in BOOLEAN :
       Bench([NewBench(duration, onTick) EXCEPT !.now = bench.now], "new")
  /\ TimerOnly

TimerStart ==
  /\ Bench([Timer_start(bench) EXCEPT !.completions = 0, !.cleared = FALSE], "start")
  /\ TimerOnly

TimerPauseCall ==
  /\ Bench(Timer_pause(bench), "pause")
  /\ TimerOnly

TimerResumeCall ==
  /\ Bench(Timer_resume(bench), "resume")
  /\ TimerOnly

TimerClearCall ==
  /\ Bench([bench EXCEPT !.t = Timer_clear(@), !.cleared = TRUE], "clear")
  /\ TimerOnly

\* The timeout the Timer refers to runs.
TimerTimeout ==
  /\ bench.t.timeout \in Due(bench)
  /\ Bench(OnTimeout(bench), "complete")
  /\ TimerOnly

\* A timeout the Timer no longer refers to runs.
TimerStrayTimeout ==
  /\ \E d \in bench.stray \cap Due(bench) :
       Bench(OnTimeout([bench EXCEPT !.stray = @ \ {d}]), "complete")
  /\ TimerOnly

\* The interval runs.
TimerInterval ==
  /\ bench.t.interval \in Due(bench)
  /\ Bench(OnInterval(bench), "tick")
  /\ TimerOnly

\* Half a second passes; no callback is overdue.
TimePasses ==
  /\ Due(bench) = {}
  /\ bench.now < MaxNow
  /\ Bench([bench EXCEPT !.now = @ + 1], "time")
  /\ TimerOnly

TimerNext ==
  \/ TimerNew
  \/ TimerStart
  \/ TimerPauseCall
  \/ TimerResumeCall
  \/ TimerClearCall
  \/ TimerTimeout
  \/ TimerStrayTimeout
  \/ TimerInterval
  \/ TimePasses

TimerSpec == Init /\ [][TimerNext]_vars

(* ---------------------------------------------------------------------- *)
(* The lobby: who is seated, before and after the session is created       *)
(* ---------------------------------------------------------------------- *)

\* A client connects and sends joinLobby; the payload is noted in the log.
LobbyJoin ==
  /\ ClientsActive
  /\ nextSock \in 2..MaxSockets
  /\ \E lobbyId \in LobbyIds, pid \in JoinIds, deal \in Deals :
       Commit(joinLobby(
                Called(Called(Connected(World), "join", pid), "joinLobby", lobbyId),
                nextSock, lobbyId, pid,
                [q \in PlayerIds |-> IF q = pid THEN deal[2] ELSE deal[1]]))
  /\ nextSock' = nextSock + 1

LobbyNext ==
  \/ CreateLobby
  \/ LobbyJoin
  \/ Reconnect
  \/ Disconnect
  \/ LeaveLobby
  \/ ReconnectExpiry
  \/ NotifyTimeout

LobbySpec == Init /\ [][LobbyNext]_vars

(* ---------------------------------------------------------------------- *)
(* Deck.deal on its own                                                    *)
(* ---------------------------------------------------------------------- *)

\* Nothing but the deck changes.
DeckOnly ==
  UNCHANGED <<lobby, players, session, leaked, deferred, recs, orphanExpiry,
              orphanNotify, live, mapped, nextSock, out, calls, ended,
              crashed, machine, bench>>

\* One turn of the loop of Deck.shuffle: j is Math.floor(Math.random() *
\* (i + 1)), any of 0..i.
ShuffleStep ==
  /\ deck.hand = <<>>
  /\ deck.i > 0
  /\ \E j \in 0..deck.i :
       deck' = [deck EXCEPT !.shuffled = Exchanged(@, deck.i, j), !.i = @ - 1]
  /\ DeckOnly

\* The loop is over: deal returns the slice.  The arrays of the call are
\* garbage from here on.
DealReturns ==
  /\ deck.hand = <<>>
  /\ deck.i = 0
  /\ deck' = [NewDeal EXCEPT !.hand = Deck_deal(deck.shuffled)]
  /\ DeckOnly

\* Deck.deal is called again.
DealAgain ==
  /\ deck.hand # <<>>
  /\ deck' = NewDeal
  /\ DeckOnly

DeckNext ==
  \/ ShuffleStep
  \/ DealReturns
  \/ DealAgain

DeckSpec == Init /\ [][DeckNext]_vars

(* ---------------------------------------------------------------------- *)
(* The run of a session to its end: timers fire, clients only come and go  *)
(* ---------------------------------------------------------------------- *)

\* A client connects and sends joinLobby for the lobby as the second player,
\* in the first rounds.
RunJoin ==
  /\ Early
  /\ ClientsActive
  /\ nextSock \in 2..MaxSockets
  /\ \E deal \in Deals :
       Commit(joinLobby(Connected(World), nextSock, LobbyId, "p2",
                        [q \in PlayerIds |-> IF q = "p2" THEN deal[2] ELSE deal[1]]))
  /\ nextSock' = nextSock + 1

\* A connection of the second player drops, in the first rounds; the
\* creator of the lobby stays.
RunDisconnect ==
  /\ Early
  /\ ClientsActive
  /\ \E sock \in live \ {players["p1"].socketId} :
       Commit(handleDisconnect([World EXCEPT !.live = @ \ {sock}], sock))
  /\ UNCHANGED nextSock

\* The second player comes and goes; the timeouts run at any time.
RunNext ==
  \/ CreateLobby
  \/ RunJoin
  \/ RunDisconnect
  \/ TimerComplete
  \/ LeakedTimerComplete
  \/ DeferredStartRound
  \/ ReconnectExpiry
  \/ OrphanExpiry
  \/ NotifyTimeout

\* Every armed timeout runs in the end; clients connect and drop as they
\* like in the first rounds, MaxSockets connections in all.
RunSpec ==
  /\ Init
  /\ [][RunNext]_vars
  /\ WF_vars(TimerComplete)
  /\ WF_vars(LeakedTimerComplete)
  /\ WF_vars(DeferredStartRound)
  /\ WF_vars(ReconnectExpiry)
  /\ WF_vars(OrphanExpiry)
  /\ WF_vars(NotifyTimeout)

Next ==
  \/ CreateLobby
  \/ Early /\ JoinLobby
  \/ Early /\ Reconnect
  \/ Early /\ Disconnect
  \/ Early /\ PreviewReady
  \/ Early /\ SetSequence
  \/ Early /\ SwapCards
  \/ Early /\ SkipSwap
  \/ Early /\ ContinueRound
  \/ Early /\ LeaveLobby
  \/ Early /\ PlayAgain
  \/ Early /\ TimerComplete
  \/ Early /\ LeakedTimerComplete
  \/ Early /\ TimerTick
  \/ Early /\ DeferredStartRound
  \/ Early /\ ReconnectExpiry
  \/ Early /\ OrphanExpiry
  \/ Early /\ NotifyTimeout

Spec == Init /\ [][Next]_vars

(* ---------------------------------------------------------------------- *)
(* Properties                                                              *)
(* ---------------------------------------------------------------------- *)

\* The events only GameSession emits.
SessionEvents ==
  {"cardsPreview", "opponentPreviewReady", "previewTimerUpdate", "gameStart",
   "sequenceConfirmed", "roundStart", "swapError",
   "swapConfirmed", "opponentSwapped", "skipConfirmed", "roundResult",
   "opponentContinued", "continueCountdown", "gameEnd", "gameResumed",
   "timerUpdate"}

\* The session events of the last step that went to a connected socket.
Delivered(o) == { e \in o : e.ev \in SessionEvents /\ e.live }

\* The roster of the session, as a set.
Roster == { session.players[i] : i \in 1..Len(session.players) }

\* Timers with a pending completion: the session's Timer if armed, and the
\* Timers it no longer refers to.
ArmedTimers ==
  (IF session.timer.armed THEN 1 ELSE 0)
  + leaked["preview"] + leaked["sequence"] + leaked["swap"] + leaked["continue"]

\* C1: once endGame or endGameByDisconnect has run, no step emits a session
\* event any more.
C1_SilentAfterEnd ==
  [][ended # "no" => Delivered(out') = {}]_vars

\* C2: when the 120 s timeout of a disconnect runs after the player has
\* reattached (and is connected), the step does not end the session by
\* disconnect.
C2_ReattachedNotForfeited ==
  [][\A p \in PlayerIds :
       (/\ recs[p].present /\ recs[p].timeout /\ recs[p].reattached
        /\ ~players[p].disconnected
        /\ players[p].socketId \in live
        /\ <<"handleReconnectTimeout", p>> \in calls')
       => \A q \in PlayerIds : <<"endGameByDisconnect", q>> \notin calls']_vars

\* C3: a disconnect that leaves both roster players of an active session
\* disconnected marks the session completed and removes the lobby in that
\* step.
C3_BothGoneCompletes ==
  [][(/\ lobby.exists /\ lobby.session /\ ~isCompleted(session)
      /\ \E a \in {"pause", "reveal"} : <<"handleDisconnect", a>> \in calls'
      /\ \A p \in Roster : players'[p].disconnected)
     => (session'.completed /\ ~lobby'.exists)]_vars

\* C4: a session has at most one Timer with a pending completion or tick.
C4_OneActiveTimer == ArmedTimers <= 1

\* The roster player whose bound connection drops in the step.
Drops(p) ==
  /\ lobby.exists /\ OnRoster(World, p)
  /\ players[p].socketId \in live \cap mapped
  /\ players[p].socketId \notin live'

\* The session is running: started, not completed and not over.
Active == lobby.exists /\ lobby.session /\ ~isCompleted(session)

\* C5: a drop outside reveal with the opponent connected leaves the session
\* paused with its Timer stopped, the player marked disconnected, and a
\* reconnect record for the player with its 120 s timeout armed.
C5_DropPauses ==
  [][\A p \in PlayerIds :
       (/\ Active /\ Drops(p)
        /\ currentPhase(session) # GamePhase.REVEAL
        /\ ~players[getOpponent(session, p)].disconnected)
       => (/\ session'.phase = GamePhase.PAUSED
           /\ session'.paused
           /\ ~session'.timer.armed
           /\ players'[p].disconnected
           /\ recs'[p].present /\ recs'[p].timeout
           /\ recs'[p].lobbyId = LobbyId)]_vars

\* C5, reached: a player has just dropped in a timed phase outside reveal, the
\* opponent is connected, and the session's Timer is held paused.
C5_Reached ==
  /\ <<"handleDisconnect", "pause">> \in calls
  /\ session.phase = GamePhase.PAUSED
  /\ session.timer.kind = "swap" /\ session.timer.paused /\ ~session.timer.armed
  /\ \E p \in Roster :
       /\ players[p].disconnected /\ recs[p].present /\ recs[p].timeout
       /\ ~players[getOpponent(session, p)].disconnected

\* C6: while a player is absent and the opponent stays connected and in the
\* lobby, the lobby is removed by the forfeit only: in the step that removes
\* it the opponent is sent gameEnd with byDisconnect and as the winner, and
\* the session is completed.  (No gameEnd with byDisconnect is sent once the
\* lobby is removed.)
C6_AbsenceEndsInForfeit ==
  [][\A p \in PlayerIds :
       LET o == getOpponent(session, p)
       IN (/\ lobby.exists /\ lobby.session /\ p \in Roster
           /\ players[p].disconnected /\ players'[p].disconnected
           /\ ~players[o].disconnected /\ ~players'[o].disconnected
           /\ players[o].socketId \in live /\ players'[o].socketId \in live'
           /\ <<"handleLeaveLobby", o>> \notin calls'
           /\ ~lobby'.exists)
          => (/\ Ev("gameEnd", o, o, TRUE, TRUE) \in out'
              /\ session'.completed)]_vars

\* A roster player is marked disconnected.
SomeoneAbsent == \E p \in Roster : players[p].disconnected

\* The continue Timer of the session completes in reveal of a round before
\* the last, with a roster player absent.
ContinueExpiresShort ==
  /\ Active
  /\ session.phase = GamePhase.REVEAL
  /\ session.currentRound < totalRounds
  /\ SomeoneAbsent
  /\ <<"timerComplete", "continue">> \in calls'

\* A player reattaches, by joinLobby or by reconnect, in the step.
Reattaches(p) ==
  <<"rejoin", p>> \in calls' \/ <<"handleReconnect", p>> \in calls'

C9_NoPlayWhileAbsent ==
  session.phase \in {GamePhase.PREVIEW, GamePhase.SEQUENCE, GamePhase.SWAP}
    => ~SomeoneAbsent

\* C9, second part: a disconnected player who reattaches while the opponent is
\* absent leaves the session paused and is sent opponentDisconnected.
C9_ReturnToAbsentOpponent ==
  [][\A p \in PlayerIds :
       (/\ Active /\ Reattaches(p)
        /\ players[p].disconnected
        /\ players[getOpponent(session, p)].disconnected)
       => (/\ session'.phase = GamePhase.PAUSED
           /\ session'.paused
           /\ <<"resume", "">> \notin calls'
           /\ Ev("opponentDisconnected", "caller", "", FALSE, TRUE) \in out')]_vars

\* The error event that rejects a reconnect.
InvalidReconnection ==
  Ev("error", "caller", "Invalid reconnection attempt", FALSE, TRUE)

\* C10: a reconnect for (playerId, lobbyId) with no record, or with a record
\* that names another lobby, is answered with the error "Invalid reconnection
\* attempt" and nothing else: no socket is bound, and the players, the
\* session, the lobby, the records and every armed timeout stay as they were.
C10_InvalidReconnectRejected ==
  [][\A p \in PlayerIds, l \in LobbyIds :
       (/\ <<"reconnect", p>> \in calls'
        /\ <<"reconnectLobby", l>> \in calls'
        /\ (~recs[p].present \/ recs[p].lobbyId # l))
       => (/\ out' = {InvalidReconnection}
           /\ mapped' = mapped
           /\ UNCHANGED <<players, session, lobby, recs, leaked, deferred,
                          orphanExpiry, orphanNotify, ended>>)]_vars

\* C10, reached: a reconnect that names another lobby than the record of the
\* disconnected player has just been rejected.
C10_Reached ==
  /\ InvalidReconnection \in out
  /\ \E p \in Roster :
       /\ <<"reconnect", p>> \in calls
       /\ <<"reconnectLobby", OtherLobbyId>> \in calls
       /\ recs[p].present /\ recs[p].lobbyId = LobbyId
       /\ players[p].disconnected
       /\ session.paused

\* C11: while a session is active, a roster player is marked disconnected
\* exactly when a reconnect record with its 120 s timeout pending exists for
\* that player.
C11_DisconnectedIffRecord ==
  Active =>
    \A p \in Roster :
      players[p].disconnected <=> (recs[p].present /\ recs[p].timeout)

\* The reconnect window of roster player p runs out in the step, with the
\* session active.
Expires(p) ==
  Active /\ OnRoster(World, p) /\ <<"handleReconnectTimeout", p>> \in calls'

\* Among the events o, a gameEnd flagged byDisconnect that names the winner is
\* emitted to player q.
ForfeitSent(o, q, winner) ==
  \E e \in o : e.ev = "gameEnd" /\ e.to = q /\ e.arg = winner /\ e.flag

\* C12 as stated: when a player's reconnect window expires in an active
\* session, the session is completed and both players are sent a gameEnd
\* flagged byDisconnect that names the other player the winner.
C12_BothSentGameEnd ==
  [][\A p \in PlayerIds :
       Expires(p) =>
         LET o == getOpponent(session, p)
         IN /\ session'.completed
            /\ ForfeitSent(out', o, o)
            /\ ForfeitSent(out', p, o)]_vars

\* C12 amended: when a player's reconnect window expires in an active session,
\* the session is completed with phase game_over, the other player is sent a
\* gameEnd flagged byDisconnect that names them the winner, and the player
\* whose window expired is sent one only if not marked disconnected.
C12_ExpiryEndsByDisconnect ==
  [][\A p \in PlayerIds :
       Expires(p) =>
         LET o == getOpponent(session, p)
         IN /\ session'.completed
            /\ session'.phase = GamePhase.GAME_OVER
            /\ <<"endGameByDisconnect", o>> \in calls'
            /\ ForfeitSent(out', o, o)
            /\ ForfeitSent(out', p, o) <=> ~players[p].disconnected
            /\ \A e \in out' : e.ev = "gameEnd" => (e.flag /\ e.arg = o)]_vars

\* C12, reached: the window of an absent player has just expired: the
\* connected opponent was sent the forfeit, the absent player nothing.
C12_Reached ==
  /\ <<"expiry", "fresh">> \in calls
  /\ session.completed /\ session.phase = GamePhase.GAME_OVER
  /\ \E p \in Roster :
       LET o == getOpponent(session, p)
       IN /\ <<"handleReconnectTimeout", p>> \in calls
          /\ players[p].disconnected
          /\ Ev("gameEnd", o, o, TRUE, TRUE) \in out
          /\ ~ForfeitSent(out, p, o)

\* Roster player p leaves, by leaveLobby or by playAgain, in the step.
Leaves(p) == OnRoster(World, p) /\ <<"handleLeaveLobby", p>> \in calls'

\* C13: playAgain does what leaveLobby does.  The player who leaves is taken
\* off the roster and has no reconnect record afterwards.  If a session is
\* active and the other player is not disconnected, the session ends by
\* disconnect with the other player the winner and the lobby is removed; if
\* the other player is disconnected, the session is marked completed, no
\* gameEnd is emitted, and the lobby is removed.
C13_LeaveIsForfeit ==
  [][\A p \in PlayerIds :
       Leaves(p) =>
         LET o == OtherOnRoster(World, p)
             sock == players[p].socketId
         IN /\ handlePlayAgain(World, sock) = handleLeaveLobby(World, sock)
            /\ ~OnRoster(World', p)
            /\ ~recs'[p].present
            /\ sock \notin mapped'
            /\ (Active /\ o # "" /\ ~players[o].disconnected)
               => (/\ session'.completed
                   /\ session'.phase = GamePhase.GAME_OVER
                   /\ Ev("gameEnd", o, o, TRUE, TRUE) \in out'
                   /\ ~lobby'.exists)
            /\ (Active /\ o # "" /\ players[o].disconnected)
               => (/\ session'.completed
                   /\ session'.phase = session.phase
                   /\ \A e \in out' : e.ev # "gameEnd"
                   /\ ~recs'[o].present
                   /\ ~lobby'.exists)]_vars

\* C13, reached: a player has just left a session in play whose other player
\* is connected: that player was sent the forfeit and the lobby is gone.
C13_Reached ==
  /\ ~lobby.exists
  /\ session.completed /\ session.phase = GamePhase.GAME_OVER
  /\ session.currentRound >= 1
  /\ \E p \in Roster :
       LET o == getOpponent(session, p)
       IN /\ <<"handleLeaveLobby", p>> \in calls
          /\ <<"endGameByDisconnect", o>> \in calls
          /\ Ev("gameEnd", o, o, TRUE, TRUE) \in out
          /\ ~recs[p].present

\* The transitions of the phase a session may make.
LegalTransition(from, to) ==
  \/ <<from, to>> \in
       { <<GamePhase.WAITING, GamePhase.PREVIEW>>,
         <<GamePhase.PREVIEW, GamePhase.SEQUENCE>>,
         <<GamePhase.SEQUENCE, GamePhase.ROUND_START>>,
         <<GamePhase.ROUND_START, GamePhase.SWAP>>,
         <<GamePhase.SWAP, GamePhase.REVEAL>>,
         <<GamePhase.REVEAL, GamePhase.ROUND_START>>,
         <<GamePhase.REVEAL, GamePhase.GAME_OVER>> }
  \/ from \notin {GamePhase.GAME_OVER, GamePhase.PAUSED} /\ to = GamePhase.PAUSED
  \/ from # GamePhase.GAME_OVER /\ to = GamePhase.GAME_OVER

\* C14: every change of the phase made by one handler is a legal transition,
\* or two of them through round_start (startRound passes through round_start
\* within one call); a resume goes from paused to the saved phase; and the
\* phase game_over never changes.
C14_LegalTransitions ==
  [][session'.phase # session.phase =>
       /\ session.phase # GamePhase.GAME_OVER
       /\ \/ LegalTransition(session.phase, session'.phase)
          \/ /\ LegalTransition(session.phase, GamePhase.ROUND_START)
             /\ LegalTransition(GamePhase.ROUND_START, session'.phase)
          \/ /\ session.phase = GamePhase.PAUSED
             /\ session'.phase = session.previousPhase]_vars

\* Sequence b is sequence a with two adjacent positions exchanged.
AdjacentExchange(a, b) ==
  \E i \in 1..(Len(a) - 1) : b = [a EXCEPT ![i] = a[i + 1], ![i + 1] = a[i]]

\* C15: a player's swapsUsed never exceeds 3 and never decreases; a swap
\* that succeeds is the player's first of the round and exchanges two adjacent
\* positions of the player's sequence.
C15_SwapDiscipline ==
  [][\A p \in Roster :
       LET a == players[p]
           b == players'[p]
       IN /\ b.swapsUsed <= MAX_SWAPS_PER_GAME
          /\ b.swapsUsed >= a.swapsUsed
          /\ b.swapsUsed > a.swapsUsed =>
               /\ b.swapsUsed = a.swapsUsed + 1
               /\ a.swapRound # session.currentRound
               /\ AdjacentExchange(a.sequence, b.sequence)]_vars

\* Player p sends swapCards with positions pos in the step, in the swap phase.
SwapRequest(p, pos) ==
  /\ session.phase = GamePhase.SWAP
  /\ <<"swapCards", p>> \in calls'
  /\ <<"swapPositions", ToString(pos)>> \in calls'

\* The request breaks a rule: a fourth swap of the game, a second swap of the
\* round, positions that are not adjacent, a card already played, or a
\* position beyond the last card.
BreaksRule(p, pos) ==
  LET pl == players[p]
  IN \/ pl.swapsUsed >= MAX_SWAPS_PER_GAME
     \/ pl.swappedThisRound
     \/ ~(pos[1] - pos[2] = 1 \/ pos[2] - pos[1] = 1)
     \/ pos[1] < 0 \/ pos[2] < 0
     \/ pos[1] + session.currentRound >= Len(pl.sequence)
     \/ pos[2] + session.currentRound >= Len(pl.sequence)

\* Player p is sent swapError in the step.
SwapErrorSent(p) == \E e \in out' : e.ev = "swapError" /\ e.to = p

\* C16 as stated: a swap request that breaks a rule is answered with
\* swapError and changes neither the players nor the session.
C16_RuleBreakGetsSwapError ==
  [][\A p \in Roster, pos \in PlaySwapInputs :
       (SwapRequest(p, pos) /\ BreaksRule(p, pos))
       => (SwapErrorSent(p) /\ UNCHANGED <<players, session>>)]_vars

\* C16 amended: a swap request that breaks a rule changes neither the players
\* nor the session; it is answered with swapError if the player is not ready
\* yet in this round, and with nothing if the player is ready (as after a
\* swap in this round).
C16_RuleBreakMutatesNothing ==
  [][\A p \in Roster, pos \in PlaySwapInputs :
       (SwapRequest(p, pos) /\ BreaksRule(p, pos))
       => (/\ UNCHANGED <<players, session>>
           /\ ~players[p].ready => (SwapErrorSent(p) /\ Cardinality(out') = 1)
           /\ players[p].ready => out' = {})]_vars

\* C16, reached: a fourth swap of adjacent cards has just been refused with
\* swapError.
C16_Reached ==
  /\ session.phase = GamePhase.SWAP
  /\ <<"swapPositions", ToString(<<0, 1>>)>> \in calls
  /\ \E p \in Roster :
       /\ <<"swapCards", p>> \in calls
       /\ players[p].swapsUsed = MAX_SWAPS_PER_GAME
       /\ ~players[p].swappedThisRound /\ ~players[p].ready
       /\ Ev("swapError", p, "invalid", FALSE, TRUE) \in out

\* List a holds the cards of list b, each once.
IsPermutation(a, b) ==
  /\ Len(a) = Len(b)
  /\ IdSet(a) = IdSet(b)
  /\ Cardinality(IdSet(a)) = Len(a)

\* The sequence of player pl is empty before it is set and a permutation of
\* the hand after.
SequenceSound(pl) ==
  IF pl.sequenceSet THEN IsPermutation(pl.sequence, pl.hand) ELSE pl.sequence = <<>>

\* C17: each player's sequence is empty while sequenceSet is false and a
\* permutation of the player's hand once it is true, however it was set and
\* whatever swaps followed; sequenceSet never goes back to false, and
\* setSequence is confirmed only to a player whose sequence was not set.
C17_SequencePermutesHand ==
  [][\A p \in PlayerIds :
       /\ SequenceSound(players[p])
       /\ SequenceSound(players'[p])
       /\ (players[p].sequenceSet /\ p \in Roster)
          => (/\ players'[p].sequenceSet
              /\ \A e \in out' : ~(e.ev = "sequenceConfirmed" /\ e.to = p))]_vars

\* C17, reached: one player's sequence was set in the reverse order of the
\* hand and a swap has changed it since; the other's is in the order dealt.
C17_Reached ==
  /\ session.phase = GamePhase.SWAP
  /\ \A p \in Roster : players[p].sequenceSet
  /\ <<"swapCards", "p1">> \in calls
  /\ players["p1"].swapsUsed = 1
  /\ players["p1"].sequence # Reversed(players["p1"].hand)
  /\ players["p1"].sequence[3] = Reversed(players["p1"].hand)[3]
  /\ players["p2"].sequence = players["p2"].hand
  /\ IsPermutation(players["p1"].sequence, players["p1"].hand)

\* The number of drawn rounds in the round history.
Draws ==
  Cardinality({ i \in 1..Len(session.roundHistory) :
                  session.roundHistory[i].winner = "none" })

\* C18: no step lowers a player's score, and after every step the two scores
\* and the number of drawn rounds in the history add up to currentRound.
C18_ScoresAddUp ==
  [][/\ \A p \in Roster : players'[p].score >= players[p].score
     /\ session'.made =>
          players'[session'.players[1]].score + players'[session'.players[2]].score
            + Draws' = session'.currentRound]_vars

\* C18, reached: a game played to its sixth reveal in which each player has
\* won a round and a round was drawn.
C18_Reached ==
  /\ session.currentRound = totalRounds
  /\ <<"revealCards", "">> \in calls
  /\ Draws >= 1
  /\ \A p \in Roster : players[p].score >= 1
  /\ \E p \in Roster : players[p].swapsUsed >= 1

MachineFields(m) ==
  [phase |-> m.phase, savedPhase |-> m.savedPhase, isPaused |-> m.isPaused,
   pendingAction |-> m.pendingAction]

\* C20: in every state, of the session and of the machine alike, a pause
\* after a pause changes nothing, a pause that takes effect followed by a
\* resume gives back the phase held before it and clears the saved phase,
\* the saved phase of a paused session is never paused, and a resume after
\* a resume changes nothing.
C20_PauseResume ==
  /\ session.made =>
       LET w == World
           p1 == pause(w)
           r1 == resume(p1)
       IN /\ pause(p1) = p1
          /\ p1.session.previousPhase # GamePhase.PAUSED
          /\ session.phase \notin {GamePhase.GAME_OVER, GamePhase.PAUSED}
               => /\ p1.session.phase = GamePhase.PAUSED
                  /\ p1.session.previousPhase = session.phase
                  /\ r1.session.phase = session.phase
                  /\ r1.session.previousPhase = NoPhase
                  /\ ~r1.session.paused
          /\ (session.paused /\ session.phase = GamePhase.PAUSED)
               => resume(w).session.phase = session.previousPhase
          /\ resume(r1) = r1
          /\ resume(resume(w)) = resume(w)
  /\ LET m == machine
         p1 == machinePause(m)
         r1 == machineResume(p1)
     IN /\ MachineFields(machinePause(p1)) = MachineFields(p1)
        /\ (~m.isPaused /\ m.phase # GamePhase.GAME_OVER)
             => /\ p1.isPaused
                /\ p1.phase = GamePhase.PAUSED
                /\ p1.savedPhase = m.phase
                /\ r1.phase = m.phase
                /\ r1.savedPhase = NoPhase
                /\ ~r1.isPaused
        /\ m.isPaused
             => /\ MachineFields(p1) = MachineFields(m)
                /\ machineResume(m).phase = m.savedPhase
        /\ MachineFields(machineResume(r1)) = MachineFields(r1)
        /\ MachineFields(machineResume(machineResume(m)))
             = MachineFields(machineResume(m))

\* C20, reached: a machine paused in the swap phase has refused a second
\* pause and still holds swap as its saved phase.
C20_Reached ==
  /\ machine.isPaused
  /\ machine.last = "pause"
  /\ machine.returned = "false"
  /\ machine.phase = GamePhase.PAUSED
  /\ machine.savedPhase = GamePhase.SWAP

\* The machine's methods other than reset and the pending-action pair.
PhaseMethods == {"transition", "pause", "resume", "endGame"}

\* C21: a transition called on a paused machine throws and leaves phase,
\* savedPhase and isPaused as they were; endGame leaves the machine in
\* game_over, not paused and with no saved phase, paused before or not; and
\* once the phase is game_over no call of transition, pause, resume or
\* endGame changes it.
C21_MachineGuards ==
  [][/\ (machine'.last = "transition" /\ machine.isPaused)
          => /\ machine'.returned = "threw"
             /\ MachineFields(machine') = MachineFields(machine)
     /\ (machine' # machine /\ machine'.last = "endGame")
          => /\ machine'.phase = GamePhase.GAME_OVER
             /\ ~machine'.isPaused
             /\ machine'.savedPhase = NoPhase
     /\ (machine.phase = GamePhase.GAME_OVER /\ machine'.last \in PhaseMethods)
          => /\ machine'.phase = GamePhase.GAME_OVER
             /\ ~machine'.isPaused]_vars

\* C21, reached: a machine paused in the swap phase has refused a transition
\* and is still paused with swap saved.
C21_Reached ==
  /\ machine.last = "transition"
  /\ machine.returned = "threw"
  /\ machine.isPaused
  /\ machine.phase = GamePhase.PAUSED
  /\ machine.savedPhase = GamePhase.SWAP

\* The session is in the swap phase of the current round, or paused out of
\* it: roundStart of this round has been emitted.
RoundStarted ==
  /\ session.made
  /\ \/ session.phase = GamePhase.SWAP
     \/ session.phase = GamePhase.PAUSED /\ session.previousPhase = GamePhase.SWAP

\* C22: roundStart is emitted at most once for a round index: no step emits
\* roundStart of the current round when the session is already in the swap
\* phase of that round.
C22_RoundStartOnce ==
  [][RoundStarted
       => \A e \in out' :
            ~(e.ev = "roundStart" /\ e.arg = ToString(session.currentRound + 1))]_vars

\* The step is a run of the completion callback.
Completes == bench' # bench /\ bench'.last = "complete"

\* C23: between two calls of start() the completion callback runs at most
\* once, and it never runs while the Timer is paused.
C23_CompletesOnce ==
  [][Completes => (bench.completions = 0 /\ ~bench.t.paused)]_vars

\* C24: once clear() has been called, and until the Timer is started again,
\* neither the tick callback nor the completion callback runs, whatever
\* calls of pause and resume follow; and clear after clear changes nothing.
C24_SilentAfterClear ==
  [][/\ Timer_clear(Timer_clear(bench.t)) = Timer_clear(bench.t)
     /\ bench.cleared
          => ~(bench' # bench /\ bench'.last \in {"tick", "complete"})]_vars

\* The identities on the lobby's roster.
Seated(l) == { l.players[i] : i \in 1..Len(l.players) }

\* The step handles a joinLobby for the lobby sent under an identity that is
\* not on the roster, and the lobby is one that validateLobby keeps.
StrangerJoins(pid) ==
  /\ <<"join", pid>> \in calls'
  /\ <<"joinLobby", LobbyId>> \in calls'
  /\ lobby.exists
  /\ Len(lobby.players) > 0
  /\ ~(lobby.session /\ (session.completed \/ session.phase = GamePhase.GAME_OVER))
  /\ pid \notin Seated(lobby)

\* C25: a roster holds at most two players with distinct identities; no
\* step seats a new identity in a lobby that has a session; and a joinLobby
\* under an identity not on the roster, sent to a lobby that is full or has
\* a session, is answered with an error and leaves the roster and the
\* allowed identities as they were.
C25_RosterAdmission ==
  [][/\ Len(lobby'.players) <= 2
     /\ Cardinality(Seated(lobby')) = Len(lobby'.players)
     /\ (lobby.exists /\ lobby.session) => Seated(lobby') \subseteq Seated(lobby)
     /\ \A pid \in PlayerIds :
          (StrangerJoins(pid) /\ (Len(lobby.players) >= 2 \/ lobby.session))
            => /\ \E e \in out' : e.ev = "error" /\ e.to = "caller"
               /\ lobby'.players = lobby.players
               /\ lobby'.allowed = lobby.allowed]_vars

\* C25, reached: a third identity has asked to join the lobby of a running
\* session and was answered that the lobby is full.
C25_Reached ==
  /\ <<"join", "p3">> \in calls
  /\ <<"joinLobby", LobbyId>> \in calls
  /\ lobby.exists /\ lobby.session /\ ~session.completed
  /\ lobby.players = <<"p1", "p2">>
  /\ "p3" \notin lobby.allowed
  /\ \E e \in out : e.ev = "error" /\ e.arg = "Lobby is full"

\* The world startGame would find if the lobby's one waiting player had been
\* joined by pid on a new connection and the connections of the roster slots
\* in dead had closed by then.
DeadSlots(pid, dead) ==
  LET w1 == [World EXCEPT !.players[pid] = NewPlayer(nextSock),
                          !.lobby.players = Append(@, pid),
                          !.lobby.allowed = @ \cup {pid},
                          !.mapped = @ \cup {nextSock},
                          !.live = @ \cup {nextSock}]
  IN [w1 EXCEPT !.live = @ \ { w1.players[w1.lobby.players[i]].socketId : i \in dead }]

\* C26: a step that creates the session leaves a roster of exactly two
\* players, both on live connections, who are the session's players; and
\* startGame, given a roster of two with a dead connection, creates no
\* session, removes the dead slots and their connection mappings, and sends
\* opponentLeft to the one survivor if there is one.
C26_StartNeedsBothLive ==
  [][/\ (~lobby.session /\ lobby'.session)
          => /\ Len(lobby'.players) = 2
             /\ session'.made
             /\ session'.players = lobby'.players
             /\ \A i \in 1..2 : players'[lobby'.players[i]].socketId \in live'
     /\ (lobby.exists /\ ~lobby.session /\ Len(lobby.players) = 1)
          => \A pid \in PlayerIds \ Seated(lobby), dead \in (SUBSET {1, 2}) \ {{}} :
               LET w == DeadSlots(pid, dead)
                   deal == CHOOSE d \in Deals : TRUE
                   r == startGame(w, [q \in PlayerIds |-> deal[1]])
                   gone == { w.lobby.players[i] : i \in dead }
               IN /\ ~r.lobby.session
                  /\ r.session = session
                  /\ Seated(r.lobby) = Seated(w.lobby) \ gone
                  /\ \A q \in gone : w.players[q].socketId \notin r.mapped
                  /\ \A q \in Seated(r.lobby) :
                       \E e \in r.out : e.ev = "opponentLeft" /\ e.to = q
                  /\ \A e \in r.out : e.ev = "opponentLeft" /\ e.to \in Seated(r.lobby)]_vars

\* C26, reached: the second player has joined a lobby whose first player is
\* connected, and the session was created for the two.
C26_Reached ==
  /\ <<"join", "p2">> \in calls
  /\ lobby.exists /\ lobby.session
  /\ lobby.players = <<"p1", "p2">>
  /\ session.made /\ session.players = lobby.players
  /\ session.phase = GamePhase.PREVIEW
  /\ \A q \in {"p1", "p2"} : players[q].socketId \in live

\* The lobby was created and its entry is gone: cleanupLobby has run.
CleanedUp == nextSock > 1 /\ ~lobby.exists

\* C27: once cleanupLobby has run, no connection is mapped to the lobby, no
\* reconnect record of a player remains, and neither a session Timer nor a
\* notify timeout of a player is armed; and cleanupLobby applied twice
\* gives what it gives applied once.
C27_CleanupLeavesNothing ==
  /\ cleanupLobby(cleanupLobby(World)) = cleanupLobby(World)
  /\ CleanedUp
       => /\ mapped = {}
          /\ \A p \in PlayerIds : ~recs[p].present
          /\ ~session.timer.armed
          /\ \A k \in TimerKinds : leaked[k] = 0
          /\ \A p \in PlayerIds : orphanNotify[p] = 0

\* No connection has dropped so far: every socket ever opened is connected.
NoDrop == live = 1..(nextSock - 1)

\* The session ended by score after six reveals.
PlayedOut ==
  /\ session.phase = GamePhase.GAME_OVER
  /\ ended = "score"
  /\ session.currentRound = totalRounds
  /\ Len(session.roundHistory) = totalRounds

WinRelation ==
  { <<"rock", "scissors">>, <<"scissors", "paper">>, <<"paper", "rock">> }

\* The winner between a, who plays card1, and b, who plays card2.
RoundWinner(a, card1, b, card2) ==
  IF <<CardType(card1), CardType(card2)>> \in WinRelation THEN a
  ELSE IF <<CardType(card2), CardType(card1)>> \in WinRelation THEN b
  ELSE "none"

\* The player with the strictly higher score, "none" when they are equal.
HigherScore(a, score1, b, score2) ==
  IF score1 > score2 THEN a ELSE IF score2 > score1 THEN b ELSE "none"

\* C29: a reveal that goes through records and announces as the round's
\* winner the player whose card, at the round's place of the sequence it
\* holds at the reveal, beats the other's by the win relation, and nobody
\* when the kinds are equal; endGame announces the player with the strictly
\* higher score, and a tie when the scores are equal.
C29_WinnersByRule ==
  [][session'.made =>
       LET a == session'.players[1]
           b == session'.players[2]
           history == session'.roundHistory
       IN /\ (<<"revealCards", "">> \in calls' /\ ~crashed')
               => LET card1 == players'[a].sequence[session.currentRound + 1]
                      card2 == players'[b].sequence[session.currentRound + 1]
                      winner == RoundWinner(a, card1, b, card2)
                  IN /\ Len(history) = Len(session.roundHistory) + 1
                     /\ history[Len(history)].card1 = card1
                     /\ history[Len(history)].card2 = card2
                     /\ history[Len(history)].winner = winner
                     /\ \E e \in out' : e.ev = "roundResult"
                     /\ \A e \in out' : e.ev = "roundResult" => e.arg = winner
          /\ <<"endGame", "">> \in calls'
               => /\ \E e \in out' : e.ev = "gameEnd"
                  /\ \A e \in out' :
                       e.ev = "gameEnd"
                         => e.arg = HigherScore(a, players'[a].score,
                                                b, players'[b].score)]_vars

\* C29, reached: a game is over by score with a winner, after rounds won by
\* the one, by the other and by nobody.
C29_Reached ==
  /\ session.made
  /\ ended = "score"
  /\ <<"endGame", "">> \in calls
  /\ \E e \in out : e.ev = "gameEnd" /\ e.arg # "none"
  /\ { session.roundHistory[i].winner : i \in 1..Len(session.roundHistory) }
       = { session.players[1], session.players[2], "none" }

\* C30: the snapshot sent with reconnected for a session that is not
\* completed never reports the phase paused: for a paused session it
\* reports the phase saved at the pause, otherwise the phase itself; and it
\* carries the opponent's hand exactly when the phase it reports is preview.
C30_SnapshotPhase ==
  [][\A e \in out' :
       (e.ev = "reconnected" /\ session.made /\ ~isCompleted(session))
         => /\ e.arg # GamePhase.PAUSED
            /\ e.arg \in PhaseValues
            /\ session.paused => e.arg = session.previousPhase
            /\ ~session.paused => e.arg = session.phase
            /\ e.flag <=> e.arg = GamePhase.PREVIEW]_vars

\* C30, reached: a player came back to a session paused in the preview; the
\* snapshot reported preview, with the opponent's hand, and the session
\* resumed.
C30_Reached ==
  /\ session.made
  /\ <<"resume", "">> \in calls
  /\ session.phase = GamePhase.PREVIEW
  /\ \E e \in out :
       e.ev = "reconnected" /\ e.arg = GamePhase.PREVIEW /\ e.flag

\* The notify timeout that runs in this step for player p is one that no
\* record refers to, while a record of a later disconnect of p exists: it
\* was set at an earlier disconnect, from which p came back.
OutlivedNotify(p) ==
  /\ orphanNotify'[p] < orphanNotify[p]
  /\ recs[p].present

\* C31: a disconnect that pauses sends the opponent nothing at once; the
\* opponentDisconnected with the grace-adjusted window is sent only when a
\* notify timeout runs, only if its player is absent then, and never by the
\* timeout of a disconnect from which the player came back.
C31_GraceNotice ==
  [][/\ <<"handleDisconnect", "pause">> \in calls'
          => \A e \in out' : e.ev # "opponentDisconnected"
     /\ \A e \in out' :
          (e.ev = "opponentDisconnected" /\ e.arg = "118")
            => \E p \in PlayerIds :
                 /\ <<"notify", p>> \in calls'
                 /\ players[p].disconnected
                 /\ ~OutlivedNotify(p)]_vars

\* The world after each game event player p can send, with the inputs of
\* the model, for the events whose phase is not the session's; with any set
\* to TRUE, for every event.
AfterEvents(p, any) ==
  LET w == World
      s == w.session
  IN (IF any \/ s.phase # GamePhase.PREVIEW
      THEN { handlePreviewReady(w, p) } ELSE {})
     \cup (IF any \/ s.phase # GamePhase.SEQUENCE
           THEN { setPlayerSequence(w, p, sequence) :
                    sequence \in SequenceInputs(players[p].hand) }
           ELSE {})
     \cup (IF any \/ s.phase # GamePhase.SWAP
           THEN { handleSwap(w, p, pos[1], pos[2]) : pos \in SwapInputs }
                  \cup { handleSkipSwap(w, p) }
           ELSE {})
     \cup (IF any \/ s.phase # GamePhase.REVEAL
           THEN { handleContinue(w, p) } ELSE {})

\* C32: in every state a game event sent in a phase that is not its own
\* leaves the session, the players and the messages as they are, and so does
\* every game event sent while the session is paused.
C32_WrongPhaseDropped ==
  session.made =>
    \A i \in 1..2 :
      /\ AfterEvents(session.players[i], FALSE) \subseteq {World}
      /\ session.paused => AfterEvents(session.players[i], TRUE) \subseteq {World}

\* The session is paused and the phase it saved is swap.
PausedInSwap ==
  /\ session.made
  /\ session.paused
  /\ session.phase = GamePhase.PAUSED
  /\ session.previousPhase = GamePhase.SWAP

\* C33: a session paused in the swap phase keeps its paused swap Timer until
\* it is resumed or ended; the resume puts it back in the swap phase, with
\* that Timer running again from what it recorded and no new Timer started,
\* and sends gameResumed.
C33_SwapTimerResumes ==
  [][PausedInSwap
       => \/ PausedInSwap' /\ session'.timer = session.timer
          \/ isCompleted(session')
          \/ /\ <<"resume", "">> \in calls'
             /\ session'.phase = GamePhase.SWAP
             /\ session.timer = [kind |-> "swap", armed |-> FALSE, paused |-> TRUE]
             /\ session'.timer = [kind |-> "swap", armed |-> TRUE, paused |-> FALSE]
             /\ leaked' = leaked
             /\ \E e \in out' : e.ev = "gameResumed" /\ e.arg = GamePhase.SWAP]_vars

\* The cards of a kind in a sequence of cards.
OfKind(cards, kind) == { i \in 1..Len(cards) : CardType(cards[i]) = kind }

\* C34: a hand returned by Deck.deal has exactly six cards, no two with the
\* same identity, every one a card of the nine-card deck, which has three
\* cards of each kind: the hand holds at most three cards of any kind.
C34_DealtHands ==
  /\ Len(createFullDeck) = 9
  /\ \A kind \in {"rock", "scissors", "paper"} :
       Cardinality(OfKind(createFullDeck, kind)) = 3
  /\ deck.hand # <<>>
       => /\ Len(deck.hand) = 6
          /\ \A i, j \in 1..Len(deck.hand) : i # j => deck.hand[i] # deck.hand[j]
          /\ \A i \in 1..Len(deck.hand) :
               \E k \in 1..Len(createFullDeck) : deck.hand[i] = createFullDeck[k]
          /\ \A kind \in {"rock", "scissors", "paper"} :
               Cardinality(OfKind(deck.hand, kind)) <= 3

\* C34, reached: Deck.deal has returned a hand that holds all three cards
\* of one kind, in an order that is not the deck's.
C34_Reached ==
  /\ deck.hand # <<>>
  /\ Cardinality(OfKind(deck.hand, "paper")) = 3
  /\ deck.hand[1] > deck.hand[2]

\* C35: the round history holds one result for each round, in order; a
\* reveal that goes through is the only step that changes it: it appends the
\* result of the round currentRound points at and moves currentRound past
\* it, whether it comes from the players being ready or from a swap Timer;
\* currentRound never goes back, so no round is revealed a second time.
C35_RevealedOnce ==
  [][session.made =>
       LET before == session.roundHistory
           after == session'.roundHistory
       IN /\ \A i \in 1..Len(after) : after[i].round = i
          /\ session'.currentRound >= session.currentRound
          /\ Len(after) = session'.currentRound
          /\ IF <<"revealCards", "">> \in calls' /\ ~crashed'
             THEN /\ session'.currentRound = session.currentRound + 1
                  /\ SubSeq(after, 1, Len(before)) = before
             ELSE after = before]_vars

\* C35, reached: the second round was revealed because both players were
\* ready, with no Timer running out.
C35_Reached ==
  /\ calls = {<<"revealCards", "">>}
  /\ Len(session.roundHistory) = 2
  /\ session.phase = GamePhase.REVEAL
  /\ \A i \in 1..2 : players[session.players[i]].ready

\* The card a roster player (1 or 2) has on record in a round-history entry.
RecordedCard(entry, i) == IF i = 1 THEN entry.card1 ELSE entry.card2

\* C36: already-played cards are never changed: for both players each position
\* of the sequence below currentRound holds the card recorded for the player
\* in the round-history entry of that round, and a step in which a player
\* swaps leaves every position below currentRound as it was.
C36_PlayedCardsKept ==
  [][session'.made =>
       \A i \in 1..2 :
         LET p == session'.players[i]
             before == players[p].sequence
             after == players'[p].sequence
         IN /\ \A r \in 1..Len(session'.roundHistory) :
                 /\ r <= Len(after)
                 /\ after[r] = RecordedCard(session'.roundHistory[r], i)
            /\ <<"swapCards", p>> \in calls' /\ session.made =>
                 /\ Len(after) = Len(before)
                 /\ \A r \in 1..Len(after) :
                      r <= session.currentRound => after[r] = before[r]]_vars

\* A swap was carried out in the third round, with two rounds on record.
C36_Reached ==
  /\ \E p \in PlayerIds : <<"swapCards", p>> \in calls /\ players[p].swapsUsed > 0
                          /\ players[p].swapRound = 2
  /\ Len(session.roundHistory) >= 2
  /\ \E e \in out : e.ev = "swapConfirmed"

\* In the step, player p's signal of the given kind reaches the session: the
\* session tells the opponent (previewReady, continueRound) or confirms to the
\* player (swapCards, skipSwap).
Signalled(p, kind) ==
  \E e \in out' :
    \/ kind = "previewReady" /\ e.ev = "opponentPreviewReady" /\ e.to = getOpponent(session, p)
    \/ kind = "continueRound" /\ e.ev = "opponentContinued" /\ e.to = getOpponent(session, p)
    \/ kind = "swap" /\ e.ev \in {"swapConfirmed", "skipConfirmed"} /\ e.to = p

\* The step takes the session on from its phase to the next one of the game.
Advances(from) ==
  /\ session.made /\ session.phase = from
  /\ \/ from = GamePhase.PREVIEW /\ session'.phase = GamePhase.SEQUENCE
     \/ from = GamePhase.SWAP /\ session'.phase = GamePhase.REVEAL
     \/ from = GamePhase.REVEAL /\ session'.phase \in {GamePhase.ROUND_START, GamePhase.SWAP}
     \/ from = GamePhase.REVEAL /\ <<"endGame", "">> \in calls'

\* C37: readiness needs both players.  A previewReady of a player already
\* ready leaves the preview phase, a continueRound of a player already ready
\* leaves the reveal phase, and a swap or skip of a player already ready leaves
\* the whole state as it is; a player ready in the swap phase of a round stays
\* ready while that swap phase lasts; and the session leaves preview, swap or
\* reveal for the next phase only in a step in which its Timer completes or
\* in which a player who was not ready signals while the opponent was ready.
C37_BothPlayersReady ==
  [][session.made =>
       /\ \A i \in 1..2 :
            LET p == session.players[i]
            IN /\ p \in session.previewReady =>
                    handlePreviewReady(World, p).session.phase = session.phase
               /\ p \in session.continueReady =>
                    handleContinue(World, p).session.phase = session.phase
               /\ players[p].ready /\ session.phase = GamePhase.SWAP =>
                    /\ handleSkipSwap(World, p) = World
                    /\ \A pos \in PlaySwapInputs : handleSwap(World, p, pos[1], pos[2]) = World
                    /\ (session'.phase = GamePhase.SWAP
                          /\ session'.currentRound = session.currentRound)
                         => players'[p].ready
       /\ Advances(GamePhase.PREVIEW) =>
            \/ <<"timerComplete", "preview">> \in calls'
            \/ \E i \in 1..2 : /\ Signalled(session.players[i], "previewReady")
                                /\ session.previewReady = {session.players[3 - i]}
       /\ Advances(GamePhase.REVEAL) =>
            \/ <<"timerComplete", "continue">> \in calls'
            \/ \E i \in 1..2 : /\ Signalled(session.players[i], "continueRound")
                                /\ session.continueReady = {session.players[3 - i]}
       /\ Advances(GamePhase.SWAP) =>
            \/ <<"timerComplete", "swap">> \in calls'
            \/ \E i \in 1..2 : /\ Signalled(session.players[i], "swap")
                                /\ ~players[session.players[i]].ready
                                /\ players[session.players[3 - i]].ready]_vars

\* An event of the given name is sent in the step.
Sent(ev) == \E e \in out' : e.ev = ev

\* C38: a resume of a session with a pending round start sends gameResumed
\* and no roundStart, and leaves the round to one scheduled startRound more;
\* a scheduled startRound sends the roundStart of the round only when no
\* roster player is disconnected as it runs, and the session then is in the
\* swap phase with nobody disconnected.
C38_ResumedThenStarted ==
  [][session.made =>
       /\ (<<"resume", "">> \in calls' /\ session.pendingRoundStart) =>
            /\ Sent("gameResumed")
            /\ ~Sent("roundStart")
            /\ deferred' = deferred + 1
            /\ session'.phase \notin {GamePhase.SWAP, GamePhase.REVEAL}
       /\ deferred' > deferred =>
            <<"resume", "">> \in calls' /\ session.pendingRoundStart /\ Sent("gameResumed")
       /\ <<"deferredStartRound", "">> \in calls' =>
            /\ deferred' = deferred - 1
            /\ Sent("roundStart") =>
                 /\ ~hasDisconnectedPlayer(World)
                 /\ ~hasDisconnectedPlayer(World')
                 /\ session'.phase = GamePhase.SWAP
            /\ hasDisconnectedPlayer(World) =>
                 ~Sent("roundStart") /\ session'.phase # GamePhase.SWAP]_vars

\* A scheduled startRound has just started round 2 after a resume, with both
\* players connected.
C38_Reached ==
  /\ <<"deferredStartRound", "">> \in calls
  /\ \E e \in out : e.ev = "roundStart" /\ e.arg = "2"
  /\ session.phase = GamePhase.SWAP
  /\ ~session.pendingRoundStart
  /\ ~hasDisconnectedPlayer(World)

\* C39: in every state of a session the paused flag is set exactly when the
\* phase is paused, and previousPhase holds a phase exactly then; ending the
\* game from a paused session leaves it so as well.
C39_PausedIffPhase ==
  session.made =>
    /\ session.paused <=> session.phase = GamePhase.PAUSED
    /\ session.previousPhase # NoPhase <=> session.phase = GamePhase.PAUSED

\* The gameEnd events of the step that go to player p.
GameEnds(p) == { e \in out' : e.ev = "gameEnd" /\ e.to = p }

\* C40: a player gets at most one gameEnd per session and its outcome is
\* final: no step sends a player two gameEnd events, and once the session has
\* ended by score, in which both players were sent gameEnd, no later step
\* sends a gameEnd again or ends the session by disconnect.
C40_OneFinalResult ==
  [][session.made =>
       \A i \in 1..2 :
         LET p == session.players[i]
         IN /\ Cardinality(GameEnds(p)) <= 1
            /\ ended = "score" =>
                 /\ GameEnds(p) = {}
                 /\ <<"endGameByDisconnect", p>> \notin calls']_vars

====
